---- MODULE Spec2Model ----
(***************************************************************************)
(* Model of academic-author-disambiguation: name normalisation and parsing *)
(* (src/src/common/name_matching.py), the institution resolver, the        *)
(* bag-of-words gate, the three matching tiers of search_openalex and the  *)
(* run of run_openalex_pipeline (src/src/openalex/query.py), the CrossRef  *)
(* scorer and DOI search (src/src/google_scholar/search.py) and the        *)
(* position-anchored cross-linker (src/src/scopus/id_match.py).            *)
(*                                                                         *)
(* A Python str is modelled as a sequence of characters; a character is a  *)
(* one-element string ("a", "J", "é", " ", ...).  Two characters that have *)
(* no printable form carry their code point as name: "U+0301", "U+0303"    *)
(* (combining acute accent and tilde), "U+2010" (the hyphen of the regular *)
(* expression of normalize_name), "U+2122" (the trade mark sign) and       *)
(* "TAB".                                                                  *)
(***************************************************************************)
EXTENDS Integers, Sequences, FiniteSets, TLC

Null == "None"

(***************************************************************************)
(* Characters.                                                             *)
(***************************************************************************)
LowerLetters ==
    << "a", "b", "c", "d", "e", "f", "g", "h", "i", "j", "k", "l", "m",
       "n", "o", "p", "q", "r", "s", "t", "u", "v", "w", "x", "y", "z" >>

UpperLetters ==
    << "A", "B", "C", "D", "E", "F", "G", "H", "I", "J", "K", "L", "M",
       "N", "O", "P", "Q", "R", "S", "T", "U", "V", "W", "X", "Y", "Z" >>

Digits == << "0", "1", "2", "3", "4", "5", "6", "7", "8", "9" >>

Range(s) == { s[i] : i \in DOMAIN s }

IndexOf(ch, s) == CHOOSE i \in DOMAIN s : s[i] = ch

\* str.isspace() on one character
IsSpace(ch) == ch \in {" ", "TAB"}

\* unicodedata.combining(ch) # 0
IsCombining(ch) == ch \in {"U+0301", "U+0303"}

LowerSet == Range(LowerLetters)

UpperSet == Range(UpperLetters)

DigitSet == Range(Digits)

AlnumSet ==
    LowerSet \cup UpperSet \cup DigitSet
        \cup {"á", "é", "í", "ó", "ú", "ñ", "Á", "É", "Í", "Ó", "Ú", "Ñ"}

\* str.isalnum() on one character
IsAlnum(ch) == ch \in AlnumSet

\* str.lower() on one character
Lower(ch) ==
    CASE ch \in UpperSet -> LowerLetters[IndexOf(ch, UpperLetters)]
      [] ch = "Á" -> "á"
      [] ch = "É" -> "é"
      [] ch = "Í" -> "í"
      [] ch = "Ó" -> "ó"
      [] ch = "Ú" -> "ú"
      [] ch = "Ñ" -> "ñ"
      [] OTHER -> ch

\* unicodedata.normalize("NFKD", ch): the decomposition of one character
NFKD(ch) ==
    CASE ch = "á" -> << "a", "U+0301" >>
      [] ch = "é" -> << "e", "U+0301" >>
      [] ch = "í" -> << "i", "U+0301" >>
      [] ch = "ó" -> << "o", "U+0301" >>
      [] ch = "ú" -> << "u", "U+0301" >>
      [] ch = "ñ" -> << "n", "U+0303" >>
      [] ch = "Á" -> << "A", "U+0301" >>
      [] ch = "É" -> << "E", "U+0301" >>
      [] ch = "Í" -> << "I", "U+0301" >>
      [] ch = "Ó" -> << "O", "U+0301" >>
      [] ch = "Ú" -> << "U", "U+0301" >>
      [] ch = "Ñ" -> << "N", "U+0303" >>
      [] ch = "U+2122" -> << "T", "M" >>
      [] OTHER -> << ch >>

\* ord(ch), which orders the characters of two strings that sorted() compares
CodePoint(ch) ==
    CASE ch = "TAB" -> 9
      [] ch = " " -> 32
      [] ch = "(" -> 40
      [] ch = ")" -> 41
      [] ch = "," -> 44
      [] ch = "-" -> 45
      [] ch = "." -> 46
      [] ch = "/" -> 47
      [] ch \in DigitSet -> 47 + IndexOf(ch, Digits)
      [] ch \in UpperSet -> 64 + IndexOf(ch, UpperLetters)
      [] ch \in LowerSet -> 96 + IndexOf(ch, LowerLetters)
      [] OTHER -> 200

(***************************************************************************)
(* Strings.                                                                *)
(***************************************************************************)
\* str.strip(), str.lstrip(), str.rstrip()
RECURSIVE LStrip(_)
LStrip(s) ==
    IF s # << >> /\ IsSpace(Head(s)) THEN LStrip(Tail(s)) ELSE s

RECURSIVE RStrip(_)
RStrip(s) ==
    IF s # << >> /\ IsSpace(s[Len(s)])
    THEN RStrip(SubSeq(s, 1, Len(s) - 1))
    ELSE s

Strip(s) == RStrip(LStrip(s))

\* "".join(f(ch) for ch in s), f giving a string for each character
RECURSIVE Decompose(_)
Decompose(s) ==
    IF s = << >> THEN << >> ELSE NFKD(Head(s)) \o Decompose(Tail(s))

\* re.sub(r"\s+", " ", s)
RECURSIVE CollapseSpaces(_)
CollapseSpaces(s) ==
    IF s = << >> THEN << >>
    ELSE IF IsSpace(Head(s))
         THEN << " " >> \o CollapseSpaces(LStrip(s))
         ELSE << Head(s) >> \o CollapseSpaces(Tail(s))

NotCombining(ch) == ~IsCombining(ch)

AlnumOrSpace(ch) == IsAlnum(ch) \/ IsSpace(ch)

\* normalize_name: strip, lower, NFKD, drop combining marks, hyphens to
\* spaces, drop what is neither alphanumeric nor space, collapse, strip
normalize_name(name) ==
    IF name = << >> THEN << >>
    ELSE LET stripped   == Strip(name)
             lowered    == [i \in DOMAIN stripped |-> Lower(stripped[i])]
             decomposed == Decompose(lowered)
             unmarked   == SelectSeq(decomposed, NotCombining)
             unhyphened == [i \in DOMAIN unmarked |->
                              IF unmarked[i] \in {"-", "U+2010"} THEN " "
                              ELSE unmarked[i]]
             kept       == SelectSeq(unhyphened, AlnumOrSpace)
         IN  Strip(CollapseSpaces(kept))

\* normalize_name of src/scripts/open_alex_query.py (lines 23-35): the same
\* steps without the test for an empty name and without the last strip
normalize_name_script(name) ==
    LET stripped   == Strip(name)
        lowered    == [i \in DOMAIN stripped |-> Lower(stripped[i])]
        decomposed == Decompose(lowered)
        unmarked   == SelectSeq(decomposed, NotCombining)
        unhyphened == [i \in DOMAIN unmarked |->
                         IF unmarked[i] \in {"-", "U+2010"} THEN " "
                         ELSE unmarked[i]]
        kept       == SelectSeq(unhyphened, AlnumOrSpace)
    IN  CollapseSpaces(kept)

\* str.split(): the maximal runs of non-space characters
RECURSIVE SplitFrom(_, _)
SplitFrom(s, cur) ==
    IF s = << >> THEN (IF cur = << >> THEN << >> ELSE << cur >>)
    ELSE IF IsSpace(Head(s))
         THEN (IF cur = << >> THEN << >> ELSE << cur >>) \o SplitFrom(Tail(s), << >>)
         ELSE SplitFrom(Tail(s), Append(cur, Head(s)))

Split(s) == SplitFrom(s, << >>)

\* a < b for two Python strings (lexicographic on code points)
RECURSIVE StrLess(_, _)
StrLess(a, b) ==
    IF b = << >> THEN FALSE
    ELSE IF a = << >> THEN TRUE
    ELSE IF Head(a) = Head(b) THEN StrLess(Tail(a), Tail(b))
    ELSE CodePoint(Head(a)) < CodePoint(Head(b))

\* sorted(tokens)
RECURSIVE Insert(_, _)
Insert(tok, s) ==
    IF s = << >> THEN << tok >>
    ELSE IF StrLess(tok, Head(s)) THEN << tok >> \o s
    ELSE << Head(s) >> \o Insert(tok, Tail(s))

RECURSIVE Sorted(_)
Sorted(s) ==
    IF s = << >> THEN << >> ELSE Insert(s[Len(s)], Sorted(SubSeq(s, 1, Len(s) - 1)))

(***************************************************************************)
(* Institution resolver (src/src/openalex/query.py, lines 25-73).          *)
(***************************************************************************)
MANUAL_REQUIRED == "MANUAL_REQUIRED"

\* re.sub(r"\s*(\(.*?\)|,.*|/.*|-.*)", "", s): at each position, an optional
\* run of spaces followed by a parenthesised part (up to the first ")") or
\* by a comma, slash or dash and the rest of the string is removed
RECURSIVE AfterFirst(_, _)
AfterFirst(ch, s) ==
    IF s = << >> THEN << >>
    ELSE IF Head(s) = ch THEN Tail(s) ELSE AfterFirst(ch, Tail(s))

RECURSIVE StripQualifiers(_)
StripQualifiers(s) ==
    IF s = << >> THEN << >>
    ELSE LET rest == LStrip(s)
         IN  IF rest # << >> /\ Head(rest) = "(" /\ ")" \in Range(Tail(rest))
             THEN StripQualifiers(AfterFirst(")", Tail(rest)))
             ELSE IF rest # << >> /\ Head(rest) \in {",", "/", "-"}
             THEN << >>
             ELSE << Head(s) >> \o StripQualifiers(Tail(s))

\* ins_clean of resolve_institution_id
CleanInstitution(ins_name) == Strip(StripQualifiers(ins_name))

\* dict assignment d[k] = v
DictSet(d, k, v) == [x \in DOMAIN d \cup {k} |-> IF x = k THEN v ELSE d[x]]

\* resolve_institution_id that leaves the cache alone when the search fails
ResolveForgettingFailures(ins_name, cache, file, resp) ==
    LET ins_clean == CleanInstitution(ins_name)
    IN  IF ins_clean \in DOMAIN cache
        THEN [cache |-> cache, file |-> file, requested |-> << >>,
              ret |-> IF cache[ins_clean] = MANUAL_REQUIRED THEN Null
                      ELSE cache[ins_clean]]
        ELSE IF resp.kind = "ok" /\ resp.results # << >>
        THEN LET written == DictSet(cache, ins_clean, resp.results[1])
             IN  [cache |-> written, file |-> written,
                  requested |-> << ins_clean >>, ret |-> resp.results[1]]
        ELSE [cache |-> cache, file |-> file,
              requested |-> << ins_clean >>, ret |-> Null]

\* resolve_institution_id that searches again for a name cached as
\* MANUAL_REQUIRED
ResolveRetryingSentinel(ins_name, cache, file, resp) ==
    LET ins_clean == CleanInstitution(ins_name)
    IN  IF ins_clean \in DOMAIN cache /\ cache[ins_clean] # MANUAL_REQUIRED
        THEN [cache |-> cache, file |-> file, requested |-> << >>,
              ret |-> cache[ins_clean]]
        ELSE IF resp.kind = "ok" /\ resp.results # << >>
        THEN LET written == DictSet(cache, ins_clean, resp.results[1])
             IN  [cache |-> written, file |-> written,
                  requested |-> << ins_clean >>, ret |-> resp.results[1]]
        ELSE LET written == DictSet(cache, ins_clean, MANUAL_REQUIRED)
             IN  [cache |-> written, file |-> written,
                  requested |-> << ins_clean >>, ret |-> Null]

\* resolve_institution_id that keeps a MANUAL_REQUIRED entry in memory and
\* leaves the file for a later save
ResolveBatchingSentinel(ins_name, cache, file, resp) ==
    LET ins_clean == CleanInstitution(ins_name)
    IN  IF ins_clean \in DOMAIN cache
        THEN [cache |-> cache, file |-> file, requested |-> << >>,
              ret |-> IF cache[ins_clean] = MANUAL_REQUIRED THEN Null
                      ELSE cache[ins_clean]]
        ELSE IF resp.kind = "ok" /\ resp.results # << >>
        THEN LET written == DictSet(cache, ins_clean, resp.results[1])
             IN  [cache |-> written, file |-> written,
                  requested |-> << ins_clean >>, ret |-> resp.results[1]]
        ELSE LET written == DictSet(cache, ins_clean, MANUAL_REQUIRED)
             IN  [cache |-> written, file |-> file,
                  requested |-> << ins_clean >>, ret |-> Null]

\* resolve_institution_id(ins_name, cache) when the institution search, if
\* it is made, answers resp: the cache and the cache file after the call,
\* the value returned and the search requests made
resolve_institution_id(ins_name, cache, file, resp) ==
    LET ins_clean == CleanInstitution(ins_name)
    IN  IF ins_clean \in DOMAIN cache
        THEN [cache |-> cache, file |-> file, requested |-> << >>,
              ret |-> IF cache[ins_clean] = MANUAL_REQUIRED THEN Null
                      ELSE cache[ins_clean]]
        ELSE IF resp.kind = "ok" /\ resp.results # << >>
        THEN LET written == DictSet(cache, ins_clean, resp.results[1])
             IN  [cache |-> written, file |-> written,
                  requested |-> << ins_clean >>, ret |-> resp.results[1]]
        ELSE LET written == DictSet(cache, ins_clean, MANUAL_REQUIRED)
             IN  [cache |-> written, file |-> written,
                  requested |-> << ins_clean >>, ret |-> Null]

(***************************************************************************)
(* Bag-of-words gate (src/src/openalex/query.py, lines 76-104).            *)
(***************************************************************************)
\* the token loop with a long token compared with the target token at its
\* own position instead of with every target token
RECURSIVE TokenLoopPositional(_, _, _)
TokenLoopPositional(candidate_tokens, full_name_tokens, i) ==
    IF i > Len(candidate_tokens) THEN [reject |-> FALSE, checks |-> i - 1]
    ELSE IF i > Len(full_name_tokens) THEN [reject |-> TRUE, checks |-> i]
    ELSE IF Len(candidate_tokens[i]) < 2
    THEN IF candidate_tokens[i] # << full_name_tokens[i][1] >>
         THEN [reject |-> TRUE, checks |-> i]
         ELSE TokenLoopPositional(candidate_tokens, full_name_tokens, i + 1)
    ELSE IF candidate_tokens[i] # full_name_tokens[i]
         THEN [reject |-> TRUE, checks |-> i]
         ELSE TokenLoopPositional(candidate_tokens, full_name_tokens, i + 1)

\* the token loop with a long token looked for among the target tokens up to
\* its own position only
RECURSIVE TokenLoopPrefix(_, _, _)
TokenLoopPrefix(candidate_tokens, full_name_tokens, i) ==
    IF i > Len(candidate_tokens) THEN [reject |-> FALSE, checks |-> i - 1]
    ELSE IF i > Len(full_name_tokens) THEN [reject |-> TRUE, checks |-> i]
    ELSE IF Len(candidate_tokens[i]) < 2
    THEN IF candidate_tokens[i] # << full_name_tokens[i][1] >>
         THEN [reject |-> TRUE, checks |-> i]
         ELSE TokenLoopPrefix(candidate_tokens, full_name_tokens, i + 1)
    ELSE IF candidate_tokens[i] \notin Range(SubSeq(full_name_tokens, 1, i))
         THEN [reject |-> TRUE, checks |-> i]
         ELSE TokenLoopPrefix(candidate_tokens, full_name_tokens, i + 1)

\* the for loop of bag_of_words_reject from position i on: the verdict and
\* the number of tokens whose check was evaluated
RECURSIVE TokenLoop(_, _, _)
TokenLoop(candidate_tokens, full_name_tokens, i) ==
    IF i > Len(candidate_tokens) THEN [reject |-> FALSE, checks |-> i - 1]
    ELSE IF i > Len(full_name_tokens) THEN [reject |-> TRUE, checks |-> i]
    ELSE IF Len(candidate_tokens[i]) < 2
    THEN IF candidate_tokens[i] # << full_name_tokens[i][1] >>
         THEN [reject |-> TRUE, checks |-> i]
         ELSE TokenLoop(candidate_tokens, full_name_tokens, i + 1)
    ELSE IF candidate_tokens[i] \notin Range(full_name_tokens)
         THEN [reject |-> TRUE, checks |-> i]
         ELSE TokenLoop(candidate_tokens, full_name_tokens, i + 1)

\* bag_of_words_reject without the look-up of lines 88-89
BagOfWordsEvalNoMemo(candidate_tokens, full_name_tokens, memo, candidate_alex_id) ==
    TokenLoop(candidate_tokens, full_name_tokens, 1)

\* bag_of_words_reject with the number of token checks it evaluated
BagOfWordsEval(candidate_tokens, full_name_tokens, memo, candidate_alex_id) ==
    IF candidate_alex_id \in memo
    THEN [reject |-> TRUE, checks |-> 0]
    ELSE TokenLoop(candidate_tokens, full_name_tokens, 1)

bag_of_words_reject(candidate_tokens, full_name_tokens, memo, candidate_alex_id) ==
    BagOfWordsEval(candidate_tokens, full_name_tokens, memo, candidate_alex_id).reject

(***************************************************************************)
(* The run: researchers, the candidates the author search can return, and  *)
(* the answers of the two OpenAlex endpoints.                              *)
(***************************************************************************)
MaxRows == 2        \* rows of df_main processed in one run
MaxResults == 2     \* length of the results list of one author search

Sp == << " " >>

JuanGarciaLopez ==
    << "J", "u", "a", "n" >> \o Sp \o << "G", "a", "r", "c", "i", "a" >>
        \o Sp \o << "L", "o", "p", "e", "z" >>

JuanAlbaGarcia ==
    << "J", "u", "a", "n" >> \o Sp \o << "A", "l", "b", "a" >>
        \o Sp \o << "G", "a", "r", "c", "i", "a" >>

MitParen == << "M", "I", "T" >> \o Sp \o << "(", "C", "a", "m", ")" >>

MitComma == << "M", "I", "T", "," >> \o Sp \o << "C", "a", "m" >>

\* rows of df_main: ID, Nombre_apellidos, Trabajo_institucion
Persons ==
    { [ID |-> "r1", Nombre_apellidos |-> JuanGarciaLopez,
       Trabajo_institucion |-> MitParen],
      [ID |-> "r2", Nombre_apellidos |-> JuanAlbaGarcia,
       Trabajo_institucion |-> MitComma] }

\* author records of the source; topics holds the field display_name of
\* each topic, affiliations the institution id of each affiliation
Catalogue ==
    { [id |-> "A1",
       display_name |-> << "J", "u", "a", "n" >> \o Sp
                        \o << "G", "a", "r", "c", "í", "a", "-",
                              "L", "ó", "p", "e", "z" >>,
       display_name_alternatives |-> << >>,
       affiliations |-> << "I1" >>,
       topics |-> << "Medicine", "Biology", "Chemistry" >>],
      [id |-> "A2",
       display_name |-> << "J", ".", " ", "G", "a", "r", "c", "i", "a" >>,
       display_name_alternatives |-> << >>,
       affiliations |-> << "", "I1" >>,
       topics |-> << "Physics", "Biology", "Medicine" >>],
      [id |-> "A3",
       display_name |-> << "L", "o", "p", "e", "z", " ", "J", "u", "a", "n" >>,
       display_name_alternatives |-> << >>,
       affiliations |-> << "I2" >>,
       topics |-> << "Physics", "History", "Medicine" >>],
      [id |-> "A4",
       display_name |-> << "J", ".", " ", "G", ".", " ", "L", "o", "p", "e", "z" >>,
       display_name_alternatives |->
           << << "G", "L" >>,
              << "J", "U", "A", "N", "TAB", "G", "a", "r", "c", "i", "a", " ",
                 " ", "L", "o", "p", "e", "z", "." >> >>,
       affiliations |-> << >>,
       topics |-> << >>] }

SourceIds == { c.id : c \in Catalogue }

\* results lists of at most n author records, repeats included
ResultsUpTo(n) == UNION { [1..k -> Catalogue] : k \in 0..n }

\* answers of GET /authors: a transport error, a non-200 status, or a body
\* with meta.count and (unless malformed) a results list
AuthorResponses ==
    { [kind |-> "exception", count |-> 0, has_results |-> FALSE, results |-> << >>],
      [kind |-> "non200", count |-> 0, has_results |-> FALSE, results |-> << >>],
      [kind |-> "ok", count |-> 1, has_results |-> FALSE, results |-> << >>] }
    \cup { [kind |-> "ok", count |-> Len(r), has_results |-> TRUE, results |-> r] :
             r \in ResultsUpTo(MaxResults) }

\* answers of GET /institutions: a transport error, a non-200 status, or a
\* body whose results list holds the ids of the institutions found
InstitutionResponses ==
    { [kind |-> "exception", results |-> << >>],
      [kind |-> "non200", results |-> << >>],
      [kind |-> "ok", results |-> << >>],
      [kind |-> "ok", results |-> << "I1" >>],
      [kind |-> "ok", results |-> << "I2", "I1" >>] }

\* contents of ins_id_cache.json when the run starts
InitialCaches ==
    { << >>,
      [k \in { << "M", "I", "T" >> } |-> "I1"] }

(***************************************************************************)
(* State.                                                                  *)
(***************************************************************************)
VARIABLES
    candidate_dict,   \* fs_id -> list of accepted candidate tuples
    reject_dict,      \* the source ids that are keys of reject_dict
    ins_cache,        \* cleaned institution name -> id or MANUAL_REQUIRED
    cache_file,       \* contents of ins_id_cache.json
    cache_file_ok,    \* ins_id_cache.json is absent or holds readable JSON
    ins_requests,     \* cleaned names sent to GET /institutions, in order
    rows,             \* rows of df_main processed so far
    df_main,          \* the IDs of those rows, in the order of df_main
    df_out,           \* the frame run_openalex_pipeline returned, if any
    pc,               \* position of the run
    fs_id,            \* locals of the running search_openalex call
    full_name,
    ins_id,
    results,
    idx,              \* position of the running tier in results
    at_call,          \* history: the length of the Person's accepted list and
                      \* reject_dict when the running call started
    args,             \* arguments of a function applied on its own
    ret,              \* and the value it returned
    pending,          \* process_researcher_files: input files not yet visited
    cur_file,         \* the file of the running iteration, if any
    row_idx,          \* rows of df_in read so far
    file_rows,        \* the list rows of the running iteration
    out_files,        \* output file name -> rows written
    xlsx,             \* run_doi_search: the spreadsheet on disk, if any
    df,               \* the frame of the running run_doi_search
    df_index,         \* position of its loop over df.iterrows()
    rows_processed,
    searched,         \* history: the rows search_doi was called for in the run
    at_start          \* history: the frame as the run read it

vars ==
    << candidate_dict, reject_dict, ins_cache, cache_file, cache_file_ok,
       ins_requests, rows, df_main, df_out, pc, fs_id, full_name, ins_id,
       results, idx, at_call, args, ret, pending, cur_file, row_idx, file_rows,
       out_files, xlsx, df, df_index, rows_processed, searched, at_start >>

store == << candidate_dict, reject_dict >>

cache_vars == << ins_cache, cache_file, cache_file_ok, ins_requests >>

locals == << fs_id, full_name, ins_id, results, idx, at_call >>

frame == << df_main, df_out >>

harness == << args, ret >>

linker == << pending, cur_file, row_idx, file_rows, out_files >>

scrape == << xlsx, df, df_index, rows_processed, searched, at_start >>

\* run_doi_search is not running and there is no spreadsheet
NoScrape ==
    /\ xlsx = << >>
    /\ df = << >>
    /\ df_index = 0
    /\ rows_processed = 0
    /\ searched = {}
    /\ at_start = << >>

Init ==
    /\ candidate_dict = << >>
    /\ reject_dict = {}
    /\ ins_cache \in InitialCaches
    /\ cache_file = ins_cache
    /\ cache_file_ok = TRUE
    /\ ins_requests = << >>
    /\ rows = 0
    /\ df_main = << >>
    /\ df_out = << >>
    /\ pc = "idle"
    /\ fs_id = Null
    /\ full_name = << >>
    /\ ins_id = Null
    /\ results = << >>
    /\ idx = 0
    /\ at_call = << >>
    /\ args = << >>
    /\ ret = << >>
    /\ pending = {}
    /\ cur_file = << >>
    /\ row_idx = 0
    /\ file_rows = << >>
    /\ out_files = << >>
    /\ NoScrape

(***************************************************************************)
(* search_openalex (src/src/openalex/query.py, lines 107-241).             *)
(***************************************************************************)
\* candidate_dict.get(fs_id, [])
Accepted(cd, fs) == IF fs \in DOMAIN cd THEN cd[fs] ELSE << >>

\* any(candidate_alex_id == ct[4] for ct in candidate_dict.get(fs_id, []))
AlreadyAccepted(cd, fs, candidate_alex_id) ==
    \E k \in DOMAIN Accepted(cd, fs) :
        Accepted(cd, fs)[k].candidate_alex_id = candidate_alex_id

\* gather_candidate_data putting the tuple at the head of the list
GatherPrepending(fs, candidate, cd) ==
    LET candidate_tuple ==
            [fs_id |-> fs,
             candidate_name |-> candidate.display_name,
             candidate_field |-> IF candidate.topics # << >>
                                 THEN candidate.topics[1] ELSE "",
             candidate_alex_id |-> candidate.id,
             relevance_score |-> Null,
             topics |-> candidate.topics]
    IN  [cd EXCEPT ![fs] = << candidate_tuple >> \o @]

\* gather_candidate_data: the tuple appended to candidate_dict[fs_id]
gather_candidate_data(fs, candidate, cd) ==
    LET candidate_tuple ==
            [fs_id |-> fs,
             candidate_name |-> candidate.display_name,
             candidate_field |-> IF candidate.topics # << >>
                                 THEN candidate.topics[1] ELSE "",
             candidate_alex_id |-> candidate.id,
             relevance_score |-> Null,
             topics |-> candidate.topics]
    IN  [cd EXCEPT ![fs] = Append(@, candidate_tuple)]

\* line 175 without the alternatives
ExactNameMatchDisplayOnly(candidate, target) ==
    normalize_name(candidate.display_name) = normalize_name(target)

\* the condition of line 175: display name or an alternative equals the
\* target, all normalised
ExactNameMatch(candidate, target) ==
    LET full_name_norm == normalize_name(target)
        alternatives_norm ==
            [k \in DOMAIN candidate.display_name_alternatives |->
                normalize_name(candidate.display_name_alternatives[k])]
    IN  \/ normalize_name(candidate.display_name) = full_name_norm
        \/ \E k \in DOMAIN alternatives_norm : full_name_norm = alternatives_norm[k]

\* the Case 1 body without the test of line 177
Tier1BodyNoDedup(candidate, fs, target, cd) ==
    IF ExactNameMatch(candidate, target)
    THEN gather_candidate_data(fs, candidate, cd)
    ELSE cd

\* body of the Case 1 loop for one candidate
Tier1Body(candidate, fs, target, cd) ==
    IF ExactNameMatch(candidate, target) /\ ~AlreadyAccepted(cd, fs, candidate.id)
    THEN gather_candidate_data(fs, candidate, cd)
    ELSE cd

\* candidate_institutions of line 195: the non-empty institution ids
IsInstitutionId(x) == x # ""

candidate_institutions(candidate) ==
    Range(SelectSeq(candidate.affiliations, IsInstitutionId))

\* line 201 satisfied by any affiliation of the candidate
InstitutionMatchAny(resolved, candidate) ==
    candidate_institutions(candidate) # {}

\* the condition of line 201
InstitutionMatch(resolved, candidate) ==
    /\ resolved # Null
    /\ resolved # ""
    /\ resolved \in candidate_institutions(candidate)

\* the Case 2 body with line 191 replacing the memo by the rejected id
Tier2BodyReplacingMemo(candidate, fs, target, resolved, cd, memo) ==
    LET full_name_tokens == Split(normalize_name(target))
        candidate_tokens == Split(normalize_name(candidate.display_name))
    IN  IF AlreadyAccepted(cd, fs, candidate.id)
        THEN [cd |-> cd, memo |-> memo]
        ELSE IF bag_of_words_reject(candidate_tokens, full_name_tokens, memo, candidate.id)
        THEN [cd |-> cd, memo |-> {candidate.id}]
        ELSE IF InstitutionMatch(resolved, candidate)
        THEN [cd |-> gather_candidate_data(fs, candidate, cd), memo |-> memo]
        ELSE [cd |-> cd, memo |-> memo]

\* body of the Case 2 loop for one candidate: candidate_dict and reject_dict
\* after it
Tier2Body(candidate, fs, target, resolved, cd, memo) ==
    LET full_name_tokens == Split(normalize_name(target))
        candidate_tokens == Split(normalize_name(candidate.display_name))
    IN  IF AlreadyAccepted(cd, fs, candidate.id)
        THEN [cd |-> cd, memo |-> memo]
        ELSE IF bag_of_words_reject(candidate_tokens, full_name_tokens, memo, candidate.id)
        THEN [cd |-> cd, memo |-> memo \cup {candidate.id}]
        ELSE IF InstitutionMatch(resolved, candidate)
        THEN [cd |-> gather_candidate_data(fs, candidate, cd), memo |-> memo]
        ELSE [cd |-> cd, memo |-> memo]

\* key of the max() of line 221
RelevanceKey(c) == IF c.relevance_score # Null THEN c.relevance_score ELSE 0

\* a max() that keeps the last of the candidates with the greatest key
RECURSIVE MaxFromLast(_, _, _)
MaxFromLast(existing, best, k) ==
    IF k > Len(existing) THEN best
    ELSE IF RelevanceKey(existing[k]) >= RelevanceKey(existing[best])
         THEN MaxFromLast(existing, k, k + 1)
         ELSE MaxFromLast(existing, best, k + 1)

\* max(existing_candidates, key=..., default=None): the position of the
\* first candidate with the greatest key, 0 for None
RECURSIVE MaxFrom(_, _, _)
MaxFrom(existing, best, k) ==
    IF k > Len(existing) THEN best
    ELSE IF RelevanceKey(existing[k]) > RelevanceKey(existing[best])
         THEN MaxFrom(existing, k, k + 1)
         ELSE MaxFrom(existing, best, k + 1)

BestExisting(existing) ==
    IF existing = << >> THEN 0 ELSE MaxFrom(existing, 1, 2)

\* the slice left out: every topic is compared
FirstTwoAll(s) == s

\* seq[:2]
FirstTwo(s) == SubSeq(s, 1, IF Len(s) < 2 THEN Len(s) ELSE 2)

\* the loops of lines 230-241: the number of gather_candidate_data calls
RECURSIVE InnerTopicLoop(_, _, _)
InnerTopicLoop(topic, potential, j) ==
    IF j > Len(potential) THEN 0
    ELSE IF topic = potential[j] THEN 1
    ELSE InnerTopicLoop(topic, potential, j + 1)

RECURSIVE TopicLoop(_, _, _)
TopicLoop(existing_topics, potential, i) ==
    IF i > Len(existing_topics) THEN 0
    ELSE LET gathered == InnerTopicLoop(existing_topics[i], potential, 1)
         IN  IF gathered > 0 THEN gathered
             ELSE TopicLoop(existing_topics, potential, i + 1)

\* the loops of scripts/open_alex_query.py, lines 288-302: the break leaves
\* the inner loop only, so the next topic of the anchor is compared as well
RECURSIVE TopicLoopScript(_, _, _)
TopicLoopScript(existing_topics, potential, i) ==
    IF i > Len(existing_topics) THEN 0
    ELSE InnerTopicLoop(existing_topics[i], potential, 1)
            + TopicLoopScript(existing_topics, potential, i + 1)

RECURSIVE GatherTimes(_, _, _, _)
GatherTimes(n, fs, candidate, cd) ==
    IF n = 0 THEN cd
    ELSE GatherTimes(n - 1, fs, candidate, gather_candidate_data(fs, candidate, cd))

\* the Case 3 body with the candidate as its own anchor when nothing is
\* accepted yet
Tier3BodySelfAnchor(candidate, fs, target, cd, memo) ==
    LET full_name_tokens == Sorted(Split(normalize_name(target)))
        candidate_tokens == Sorted(Split(normalize_name(candidate.display_name)))
        existing_candidates == Accepted(cd, fs)
        best_existing == BestExisting(existing_candidates)
        anchor_topics == IF best_existing = 0 THEN candidate.topics
                         ELSE existing_candidates[best_existing].topics
    IN  IF AlreadyAccepted(cd, fs, candidate.id)
        THEN [cd |-> cd, memo |-> memo]
        ELSE IF bag_of_words_reject(candidate_tokens, full_name_tokens, memo, candidate.id)
        THEN [cd |-> cd, memo |-> memo \cup {candidate.id}]
        ELSE [cd |-> GatherTimes(
                        TopicLoop(FirstTwo(anchor_topics),
                                  FirstTwo(candidate.topics), 1),
                        fs, candidate, cd),
              memo |-> memo]

\* body of the Case 3 loop for one candidate
Tier3Body(candidate, fs, target, cd, memo) ==
    LET full_name_tokens == Sorted(Split(normalize_name(target)))
        candidate_tokens == Sorted(Split(normalize_name(candidate.display_name)))
        existing_candidates == Accepted(cd, fs)
        best_existing == BestExisting(existing_candidates)
    IN  IF AlreadyAccepted(cd, fs, candidate.id)
        THEN [cd |-> cd, memo |-> memo]
        ELSE IF bag_of_words_reject(candidate_tokens, full_name_tokens, memo, candidate.id)
        THEN [cd |-> cd, memo |-> memo \cup {candidate.id}]
        ELSE IF best_existing = 0
        THEN [cd |-> cd, memo |-> memo]
        ELSE [cd |-> GatherTimes(
                        TopicLoop(FirstTwo(existing_candidates[best_existing].topics),
                                  FirstTwo(candidate.topics), 1),
                        fs, candidate, cd),
              memo |-> memo]

(***************************************************************************)
(* Steps of run_openalex_pipeline (lines 244-285).                         *)
(***************************************************************************)
\* search_openalex returns to the loop of run_openalex_pipeline
Return ==
    /\ pc' = "idle"
    /\ fs_id' = Null
    /\ full_name' = << >>
    /\ ins_id' = Null
    /\ results' = << >>
    /\ idx' = 0
    /\ at_call' = << >>

\* lines 257-264 and 146-148: the next row is read, search_openalex
\* resolves its institution and sends the author search
SearchOpenalex(row, ins_resp) ==
    /\ pc = "idle"
    /\ rows < MaxRows
    /\ LET r == resolve_institution_id(row.Trabajo_institucion, ins_cache,
                                       cache_file, ins_resp)
       IN  /\ ins_cache' = r.cache
           /\ cache_file' = r.file
           /\ cache_file_ok' = (cache_file_ok \/ r.requested # << >>)
           /\ ins_requests' = ins_requests \o r.requested
           /\ ins_id' = r.ret
    /\ rows' = rows + 1
    /\ df_main' = Append(df_main, row.ID)
    /\ at_call' = << [accepted |-> Len(Accepted(candidate_dict, row.ID)),
                      memo |-> reject_dict] >>
    /\ fs_id' = row.ID
    /\ full_name' = row.Nombre_apellidos
    /\ pc' = "request"
    /\ UNCHANGED << store, results, idx, df_out, harness, linker, scrape >>

\* an answer handler that starts every call with an empty list
AuthorsResponseResetting(resp) ==
    /\ pc = "request"
    /\ IF resp.kind # "ok"
       THEN /\ Return
            /\ UNCHANGED store
       ELSE /\ candidate_dict' = DictSet(candidate_dict, fs_id, << >>)
            /\ UNCHANGED reject_dict
            /\ IF resp.count = 0
               THEN Return
               ELSE IF ~resp.has_results
               THEN /\ pc' = "crashed"
                    /\ UNCHANGED locals
               ELSE IF resp.results = << >>
               THEN Return
               ELSE /\ pc' = "tier1"
                    /\ results' = resp.results
                    /\ idx' = 1
                    /\ UNCHANGED << fs_id, full_name, ins_id, at_call >>
    /\ UNCHANGED << cache_vars, rows, frame, linker, scrape, harness >>

\* lines 149-166: the answer of the author search
AuthorsResponse(resp) ==
    /\ pc = "request"
    /\ IF resp.kind # "ok"
       THEN /\ Return
            /\ UNCHANGED store
       ELSE /\ candidate_dict' = IF fs_id \in DOMAIN candidate_dict
                                 THEN candidate_dict
                                 ELSE DictSet(candidate_dict, fs_id, << >>)
            /\ UNCHANGED reject_dict
            /\ IF resp.count = 0
               THEN Return
               ELSE IF ~resp.has_results
               THEN /\ pc' = "crashed"
                    /\ UNCHANGED locals
               ELSE IF resp.results = << >>
               THEN Return
               ELSE /\ pc' = "tier1"
                    /\ results' = resp.results
                    /\ idx' = 1
                    /\ UNCHANGED << fs_id, full_name, ins_id, at_call >>
    /\ UNCHANGED << cache_vars, rows, frame, linker, scrape, harness >>

\* the loop moves to the next candidate, or the next loop starts
NextCandidate(next_pc) ==
    IF idx < Len(results)
    THEN /\ idx' = idx + 1
         /\ UNCHANGED << pc, fs_id, full_name, ins_id, results, at_call >>
    ELSE IF next_pc = "idle"
    THEN Return
    ELSE /\ pc' = next_pc
         /\ idx' = 1
         /\ UNCHANGED << fs_id, full_name, ins_id, results, at_call >>

\* the Case 1 loop followed by the Case 3 loop
Tier1StepBeforeTier3 ==
    /\ pc = "tier1"
    /\ candidate_dict' = Tier1Body(results[idx], fs_id, full_name, candidate_dict)
    /\ NextCandidate("tier3")
    /\ UNCHANGED << reject_dict, cache_vars, rows, frame, linker, scrape, harness >>

\* lines 169-179: one iteration of the Case 1 loop
Tier1Step ==
    /\ pc = "tier1"
    /\ candidate_dict' = Tier1Body(results[idx], fs_id, full_name, candidate_dict)
    /\ NextCandidate("tier2")
    /\ UNCHANGED << reject_dict, cache_vars, rows, frame, linker, scrape, harness >>

\* lines 182-203: one iteration of the Case 2 loop
Tier2Step ==
    /\ pc = "tier2"
    /\ LET after == Tier2Body(results[idx], fs_id, full_name, ins_id,
                              candidate_dict, reject_dict)
       IN  /\ candidate_dict' = after.cd
           /\ reject_dict' = after.memo
    /\ NextCandidate("tier3")
    /\ UNCHANGED << cache_vars, rows, frame, linker, scrape, harness >>

\* lines 206-241: one iteration of the Case 3 loop
Tier3Step ==
    /\ pc = "tier3"
    /\ LET after == Tier3Body(results[idx], fs_id, full_name,
                              candidate_dict, reject_dict)
       IN  /\ candidate_dict' = after.cd
           /\ reject_dict' = after.memo
    /\ NextCandidate("idle")
    /\ UNCHANGED << cache_vars, rows, frame, linker, scrape, harness >>

\* a cell of a row the left merge found no candidate row for
NaN == "NaN"

\* lines 266-285: df_main itself when candidate_dict has no key, else the
\* left merge of df_main with the candidate rows on ID = fs_id.  A row of
\* df_main stands with the candidate_alex_id cells of the rows the merge
\* makes of it: one per accepted candidate, one NaN cell when the Person
\* has no candidate row (their order within a Person is left open)
merge(main, cd) ==
    [columns |-> DOMAIN cd # {},
     rows |-> [i \in DOMAIN main |->
                  [ID |-> main[i],
                   candidate_alex_id |->
                       IF DOMAIN cd = {} THEN {}
                       ELSE IF Accepted(cd, main[i]) = << >> THEN {NaN}
                       ELSE { Accepted(cd, main[i])[k].candidate_alex_id :
                                k \in DOMAIN Accepted(cd, main[i]) }]]]

\* lines 266-285: the loop over df_main is over, the result is built
BuildResults ==
    /\ pc = "idle"
    /\ pc' = "done"
    /\ df_out' = << merge(df_main, candidate_dict) >>
    /\ UNCHANGED << store, cache_vars, rows, df_main, linker, scrape, locals, harness >>

Next ==
    \/ \E row \in Persons, ins_resp \in InstitutionResponses :
          SearchOpenalex(row, ins_resp)
    \/ \E resp \in AuthorResponses : AuthorsResponse(resp)
    \/ Tier1Step
    \/ Tier2Step
    \/ Tier3Step
    \/ BuildResults

Spec == Init /\ [][Next]_vars

TypeOK ==
    /\ pc \in {"load", "idle", "request", "tier1", "tier2", "tier3", "crashed",
              "done", "files", "rows", "scopus", "openalex"}
    /\ cache_file_ok \in BOOLEAN
    /\ reject_dict \subseteq SourceIds
    /\ rows \in 0..MaxRows
    /\ DOMAIN candidate_dict \subseteq { p.ID : p \in Persons }

(***************************************************************************)
(* run_openalex_pipeline from its first line: the cache file is loaded     *)
(* (lines 29-33 and 255) before the loop over df_main.                     *)
(***************************************************************************)
\* the run starts with an absent file, a file of entries, or a file whose
\* text json.loads cannot read
InitPipeline ==
    /\ candidate_dict = << >>
    /\ reject_dict = {}
    /\ ins_cache = << >>
    /\ cache_file \in InitialCaches
    /\ cache_file_ok \in BOOLEAN
    /\ ~cache_file_ok => cache_file = << >>
    /\ ins_requests = << >>
    /\ rows = 0
    /\ df_main = << >>
    /\ df_out = << >>
    /\ pc = "load"
    /\ fs_id = Null
    /\ full_name = << >>
    /\ ins_id = Null
    /\ results = << >>
    /\ idx = 0
    /\ at_call = << >>
    /\ args = << >>
    /\ ret = << >>
    /\ pending = {}
    /\ cur_file = << >>
    /\ row_idx = 0
    /\ file_rows = << >>
    /\ out_files = << >>
    /\ NoScrape

\* line 255: json.loads(CACHE_FILE.read_text()) is not inside a try, so a
\* file it cannot read raises out of run_openalex_pipeline
load_institution_cache ==
    /\ pc = "load"
    /\ IF cache_file_ok
       THEN /\ ins_cache' = cache_file
            /\ pc' = "idle"
       ELSE /\ ins_cache' = ins_cache
            /\ pc' = "crashed"
    /\ UNCHANGED << store, cache_file, cache_file_ok, ins_requests, rows, frame, linker, scrape,
                    locals, harness >>

NextPipeline ==
    \/ load_institution_cache
    \/ Next

SpecPipeline == InitPipeline /\ [][NextPipeline]_vars

(***************************************************************************)
(* resolve_institution_id called on its own, sharing one cache.            *)
(***************************************************************************)
MaxRequests == 3    \* institution searches sent in one behaviour

Mit == << "M", "I", "T" >>

Ucm == << "U", "C", "M" >>

InstitutionNames ==
    { MitParen, MitComma, Mit,
      << " " >> \o Ucm \o << " " >>,
      Ucm \o << " ", "-", " ", "2" >>,
      << "(", "x", ")", " " >> \o Ucm \o << "/", "M" >>,
      << "A", " ", "(", "B" >>,
      << >> }

ResolveCall(ins_name, resp) ==
    /\ pc = "idle"
    /\ rows = 0
    /\ df_main = << >>
    /\ df_out = << >>
    /\ Len(ins_requests) < MaxRequests
    /\ LET r == resolve_institution_id(ins_name, ins_cache, cache_file, resp)
       IN  /\ ins_cache' = r.cache
           /\ cache_file' = r.file
           /\ cache_file_ok' = (cache_file_ok \/ r.requested # << >>)
           /\ ins_requests' = ins_requests \o r.requested
           /\ args' = << ins_name >>
           /\ ret' = << r.ret, r.requested >>
    /\ UNCHANGED << store, rows, frame, linker, scrape, pc, locals >>

NextResolve ==
    \E ins_name \in InstitutionNames, resp \in InstitutionResponses :
        ResolveCall(ins_name, resp)

SpecResolve == Init /\ [][NextResolve]_vars

(***************************************************************************)
(* bag_of_words_reject applied on its own.                                 *)
(***************************************************************************)
MaxCandidateTokens == 3
MaxTargetTokens == 3

juan == << "j", "u", "a", "n" >>

garcia == << "g", "a", "r", "c", "i", "a" >>

lopez == << "l", "o", "p", "e", "z" >>

smith == << "s", "m", "i", "t", "h" >>

CandidateTokens == { << "j" >>, << "g" >>, juan, garcia, smith }

TargetTokens == { << "j" >>, juan, garcia, lopez }

TokenLists(tokens, n) == UNION { [1..k -> tokens] : k \in 0..n }

InitGate ==
    /\ Init
    /\ ins_cache = << >>

GateCall ==
    /\ pc = "idle"
    /\ args = << >>
    /\ \E c \in TokenLists(CandidateTokens, MaxCandidateTokens),
          t \in TokenLists(TargetTokens, MaxTargetTokens),
          memo \in {{}, {"A1"}}, id \in {"A1"} :
          /\ args' = << c, t, memo, id >>
          /\ ret' = << BagOfWordsEval(c, t, memo, id) >>
    /\ UNCHANGED << store, cache_vars, rows, frame, linker, scrape, pc, locals >>

NextGate == GateCall

SpecGate == InitGate /\ [][NextGate]_vars

(***************************************************************************)
(* Name and institution helpers of src/src/common/name_matching.py used   *)
(* by the CrossRef DOI search.                                             *)
(***************************************************************************)
\* unidecode(ch): the ASCII transliteration of one character
Unidecode(ch) ==
    CASE ch = "á" -> << "a" >>
      [] ch = "é" -> << "e" >>
      [] ch = "í" -> << "i" >>
      [] ch = "ó" -> << "o" >>
      [] ch = "ú" -> << "u" >>
      [] ch = "ñ" -> << "n" >>
      [] ch = "Á" -> << "A" >>
      [] ch = "É" -> << "E" >>
      [] ch = "Í" -> << "I" >>
      [] ch = "Ó" -> << "O" >>
      [] ch = "Ú" -> << "U" >>
      [] ch = "Ñ" -> << "N" >>
      [] ch \in {"U+0301", "U+0303"} -> << >>
      [] ch = "U+2010" -> << "-" >>
      [] OTHER -> << ch >>

\* unidecode(s)
RECURSIVE Transliterate(_)
Transliterate(s) ==
    IF s = << >> THEN << >> ELSE Unidecode(Head(s)) \o Transliterate(Tail(s))

\* s.lower()
LowerStr(s) == [i \in DOMAIN s |-> Lower(s[i])]

\* \w and [\w\s] of the re module on one character
IsWord(ch) == IsAlnum(ch) \/ ch = "_"

WordOrSpace(ch) == IsWord(ch) \/ IsSpace(ch)

\* " ".join(fields)
RECURSIVE JoinSpace(_)
JoinSpace(fields) ==
    IF fields = << >> THEN << >>
    ELSE IF Len(fields) = 1 THEN fields[1]
    ELSE fields[1] \o << " " >> \o JoinSpace(Tail(fields))

\* s.replace("-", " ")
HyphenToSpace(s) == [i \in DOMAIN s |-> IF s[i] = "-" THEN " " ELSE s[i]]

\* tokenize_name_fields(*fields): join, lower, unidecode, hyphens to
\* spaces, drop what is neither word character nor space, split
tokenize_name_fields(fields) ==
    LET combined == Transliterate(LowerStr(JoinSpace(fields)))
    IN  Split(SelectSeq(HyphenToSpace(combined), WordOrSpace))

COMMON_INSTITUTION_WORDS ==
    { << "u", "n", "i", "v", "e", "r", "s", "i", "d", "a", "d" >>,
      << "u", "n", "i", "v", "e", "r", "s", "i", "t", "y" >>,
      << "c", "o", "l", "l", "e", "g", "e" >>,
      << "i", "n", "s", "t", "i", "t", "u", "t", "e" >>,
      << "i", "n", "s", "t", "i", "t", "u", "t", "o" >>,
      << "i", "n", "s", "t", "i", "t", "u", "t" >>,
      << "f", "a", "c", "u", "l", "t", "a", "d" >>,
      << "e", "s", "c", "u", "e", "l", "a" >>,
      << "p", "o", "l", "i", "t", "e", "c", "n", "i", "c", "a" >>,
      << "a", "u", "t", "o", "n", "o", "m", "a" >>,
      << "s", "u", "p", "e", "r", "i", "o", "r" >>,
      << "c", "o", "u", "n", "c", "i", "l" >> }

NotCommonWord(t) == t \notin COMMON_INSTITUTION_WORDS

\* normalize_institution_name(name): lower, hyphens to spaces, drop what is
\* neither word character nor space, unidecode, split, drop the common words
normalize_institution_name(name) ==
    LET kept == SelectSeq(HyphenToSpace(LowerStr(name)), WordOrSpace)
    IN  SelectSeq(Split(Transliterate(kept)), NotCommonWord)

\* institution_match(institution, affiliation)
institution_match(institution, affiliation) ==
    LET inst_tokens == normalize_institution_name(institution)
        aff_tokens  == normalize_institution_name(affiliation)
    IN  IF inst_tokens = << >> THEN FALSE
        ELSE \E i \in DOMAIN inst_tokens : inst_tokens[i] \in Range(aff_tokens)

\* an optional string: None, or a string
NoneStr == << >>

Some(s) == << s >>

\* parse_spanish_name(full_name): (first_names, paternal, maternal)
parse_spanish_name(name) ==
    LET tokens == Split(LowerStr(name))
    IN  IF Len(tokens) < 2
        THEN [first_names |-> tokens, paternal |-> NoneStr, maternal |-> NoneStr]
        ELSE IF Len(tokens) = 2
        THEN [first_names |-> << tokens[1] >>, paternal |-> Some(tokens[2]),
              maternal |-> NoneStr]
        ELSE [first_names |-> << tokens[1] >>,
              paternal |-> Some(tokens[Len(tokens) - 1]),
              maternal |-> Some(tokens[Len(tokens)])]

(***************************************************************************)
(* CrossRef DOI search (src/src/google_scholar/search.py).  A document is  *)
(* a record: author (given, family and the names of the affiliations),     *)
(* publisher, date_parts (created.date-parts) and DOI ("" when absent).    *)
(***************************************************************************)
\* check_affiliation_or_publisher(item, institution_name)
check_affiliation_or_publisher(item, institution_name) ==
    \/ \E i \in DOMAIN item.author :
          \E j \in DOMAIN item.author[i].affiliation :
              institution_match(institution_name, item.author[i].affiliation[j])
    \/ institution_match(institution_name, item.publisher)

\* get_created_year(item): the year, or nothing
get_created_year(item) ==
    IF item.date_parts # << >> /\ Len(item.date_parts[1]) > 0
    THEN << item.date_parts[1][1] >>
    ELSE << >>

\* the default of the parameter delta of check_created_year_in_range
delta == 5

\* check_created_year_in_range with both ends of the range left out
YearInRangeExclusive(item, scholarship_year) ==
    LET year == get_created_year(item)
    IN  IF year = << >> THEN FALSE
        ELSE /\ (scholarship_year - delta) < year[1]
             /\ year[1] < (scholarship_year + delta)

\* check_created_year_in_range(item, scholarship_year)
check_created_year_in_range(item, scholarship_year) ==
    LET year == get_created_year(item)
    IN  IF year = << >> THEN FALSE
        ELSE /\ (scholarship_year - delta) <= year[1]
             /\ year[1] <= (scholarship_year + delta)

\* the score of a document with no perfect name match
NoPerfectMatch == -999

\* set(tokenize_name_fields(au.get("given", ""), au.get("family", "")))
AuthorTokens(au) == Range(tokenize_name_fields(<< au.given, au.family >>))

\* compute_similarity_score(item, full_name, institution_name, scholarship_year)
compute_similarity_score(item, name, institution_name, scholarship_year) ==
    LET query_tokens  == Range(tokenize_name_fields(<< name >>))
        perfect_match == \E i \in DOMAIN item.author :
                            query_tokens \subseteq AuthorTokens(item.author[i])
    IN  IF ~perfect_match THEN NoPerfectMatch
        ELSE 1 + (IF check_affiliation_or_publisher(item, institution_name)
                  THEN 1 ELSE 0)
               + (IF check_created_year_in_range(item, scholarship_year)
                  THEN 1 ELSE 0)

\* scored_items.sort(key=lambda x: x[0], reverse=True): a stable sort, so
\* items of equal score keep the order in which they were appended
RECURSIVE InsertByScore(_, _)
InsertByScore(x, s) ==
    IF s = << >> THEN << x >>
    ELSE IF Head(s).sc >= x.sc THEN << Head(s) >> \o InsertByScore(x, Tail(s))
    ELSE << x >> \o s

RECURSIVE SortByScore(_)
SortByScore(s) ==
    IF s = << >> THEN << >>
    ELSE InsertByScore(s[Len(s)], SortByScore(SubSeq(s, 1, Len(s) - 1)))

\* full_name of search_doi: given_name and the surnames parsed from
\* name_query
SearchName(name_query, given_name) ==
    LET parsed == parse_spanish_name(name_query)
        apellido1 == IF parsed.paternal # NoneStr THEN parsed.paternal[1]
                     ELSE << >>
        last_name_query == IF parsed.maternal # NoneStr
                           THEN apellido1 \o << " " >> \o parsed.maternal[1]
                           ELSE apellido1
    IN  Strip(given_name \o << " " >> \o last_name_query)

\* the exact-match test of the loop of search_doi with set inclusion in
\* place of set equality
HasSupersetAuthor(item, name) ==
    \E i \in DOMAIN item.author :
        Range(tokenize_name_fields(<< name >>)) \subseteq AuthorTokens(item.author[i])

\* lines 135-140: some author's token set equals the token set of full_name
HasExactAuthor(item, name) ==
    \E i \in DOMAIN item.author :
        AuthorTokens(item.author[i]) = Range(tokenize_name_fields(<< name >>))

\* search_doi when CrossRef answers the documents items: nothing (None), or the one
\* dictionary of the returned list
search_doi(name_query, given_name, scholarship_year, institution_name, items) ==
    LET name == SearchName(name_query, given_name)
        scored == [i \in DOMAIN items |->
                     [sc |-> compute_similarity_score(items[i], name,
                                 institution_name, scholarship_year),
                      item |-> items[i]]]
        scored_items == SortByScore(SelectSeq(scored, LAMBDA x : x.sc > 0))
        exact_match_items == SelectSeq(items, LAMBDA it : HasExactAuthor(it, name))
        best_scored == SelectSeq(scored_items, LAMBDA x : x.sc >= 2)
    IN  IF best_scored # << >> /\ best_scored[1].item.DOI # ""
        THEN << [doi |-> << "https://doi.org/", best_scored[1].item.DOI >>,
                 score |-> best_scored[1].sc] >>
        ELSE IF exact_match_items # << >> /\ exact_match_items[1].DOI # ""
        THEN << [doi |-> << "https://doi.org/", exact_match_items[1].DOI >>,
                 score |-> 1] >>
        ELSE << >>

(***************************************************************************)
(* compute_similarity_score and search_doi applied on their own.           *)
(***************************************************************************)
MaxAuthors == 2     \* authors of a scored document
MaxDocs == 3        \* documents of one CrossRef answer

Zaragoza == << "U", "n", "i", "v", "e", "r", "s", "i", "d", "a", "d", " ", "d", "e", " ", "Z", "a", "r", "a", "g", "o", "z", "a" >>

AuGarciaLopez ==
    [given |-> << "J", "u", "a", "n" >>, family |-> << "G", "a", "r", "c", "í", "a", "-", "L", "ó", "p", "e", "z" >>,
     affiliation |-> << Zaragoza >>]

AuPlain ==
    [given |-> << "J", "u", "a", "n" >>, family |-> << "G", "a", "r", "c", "i", "a", " ", "L", "o", "p", "e", "z" >>, affiliation |-> << >>]

AuInitial ==
    [given |-> << "J", "." >>, family |-> << "G", "a", "r", "c", "i", "a" >>, affiliation |-> << >>]

AuCarlos ==
    [given |-> << "J", "u", "a", "n", " ", "C", "a", "r", "l", "o", "s" >>, family |-> << "G", "a", "r", "c", "i", "a", " ", "L", "o", "p", "e", "z" >>,
     affiliation |-> << << "M", "I", "T" >> >>]

AuSmith ==
    [given |-> << >>, family |-> << "S", "m", "i", "t", "h" >>,
     affiliation |-> << << "I", "n", "s", "t", "i", "t", "u", "t", "o", " ", "S", "u", "p", "e", "r", "i", "o", "r" >> >>]

AuthorPool == { AuGarciaLopez, AuInitial, AuCarlos, AuSmith }

AuthorLists(n) == UNION { [1..k -> AuthorPool] : k \in 0..n }

Publishers == { << >>, << "Z", "a", "r", "a", "g", "o", "z", "a", " ", "P", "r", "e", "s", "s" >>, << "U", "n", "i", "v", "e", "r", "s", "i", "t", "y", " ", "P", "r", "e", "s", "s" >> }

\* created.date-parts around the scholarship year of ScholarshipYears
DateParts ==
    { << >>, << << >> >>, << << 2009, 6 >> >>, << << 2010 >> >>,
      << << 2015, 1, 1 >> >>, << << 2020 >> >>, << << 2021 >> >> }

ScholarshipYears == { 2015 }

ScoreNames == { << "J", "u", "a", "n", " ", "G", "a", "r", "c", "i", "a", " ", "L", "o", "p", "e", "z" >>, << "j", "u", "a", "n", " ", "G", "A", "R", "C", "Í", "A" >>, << >> }

ScoreInstitutions == { Zaragoza, << "U", "n", "i", "v", "e", "r", "s", "i", "t", "y" >>, << "I", "n", "s", "t", "i", "t", "u", "t", "o", " ", "M", "I", "T" >> }

ScoreItems ==
    { [author |-> a, publisher |-> p, date_parts |-> d, DOI |-> "10.1/x"] :
        a \in AuthorLists(MaxAuthors), p \in Publishers, d \in DateParts }

\* the documents a CrossRef answer is made of
D1 ==
    [author |-> << AuGarciaLopez >>, publisher |-> << >>,
     date_parts |-> << << 2015 >> >>, DOI |-> "10.1/d1"]

D2 ==
    [author |-> << AuCarlos >>, publisher |-> << >>,
     date_parts |-> << << 2020 >> >>, DOI |-> "10.1/d2"]

D3 ==
    [author |-> << AuPlain >>, publisher |-> << >>,
     date_parts |-> << << 2000 >> >>, DOI |-> "10.1/d3"]

D4 ==
    [author |-> << AuGarciaLopez >>, publisher |-> << >>,
     date_parts |-> << << 2015 >> >>, DOI |-> ""]

D5 ==
    [author |-> << AuInitial >>, publisher |-> << "Z", "a", "r", "a", "g", "o", "z", "a", " ", "P", "r", "e", "s", "s" >>,
     date_parts |-> << << 2015 >> >>, DOI |-> "10.1/d5"]

D6 ==
    [author |-> << AuInitial, AuPlain >>, publisher |-> << >>,
     date_parts |-> << >>, DOI |-> ""]

D7 ==
    [author |-> << AuCarlos >>, publisher |-> << "Z", "a", "r", "a", "g", "o", "z", "a", " ", "P", "r", "e", "s", "s" >>,
     date_parts |-> << << 2010 >> >>, DOI |-> "10.1/d7"]

D8 ==
    [author |-> << AuCarlos >>, publisher |-> << "Z", "a", "r", "a", "g", "o", "z", "a", " ", "P", "r", "e", "s", "s" >>,
     date_parts |-> << << 2010 >> >>, DOI |-> ""]

DocCatalogue == { D1, D2, D3, D4, D5, D6, D7, D8 }

DocLists(n) == UNION { [1..k -> DocCatalogue] : k \in 0..n }

\* name_query and given_name of the rows search_doi is called for
DoiQueries ==
    { [name_query |-> << "J", "u", "a", "n", " ", "G", "a", "r", "c", "i", "a", " ", "L", "o", "p", "e", "z" >>, given_name |-> << "J", "u", "a", "n" >>],
      [name_query |-> << "J", "u", "a", "n", " ", "G", "a", "r", "c", "i", "a" >>, given_name |-> << "J", "u", "a", "n" >>] }

InitCrossref ==
    /\ Init
    /\ ins_cache = << >>

ScoreCall ==
    /\ pc = "idle"
    /\ args = << >>
    /\ \E item \in ScoreItems, name \in ScoreNames,
          institution_name \in ScoreInstitutions,
          scholarship_year \in ScholarshipYears :
          /\ args' = << "compute_similarity_score", item, name,
                        institution_name, scholarship_year >>
          /\ ret' = << compute_similarity_score(item, name, institution_name,
                                                scholarship_year) >>
    /\ UNCHANGED << store, cache_vars, rows, frame, linker, scrape, pc, locals >>

SearchDoiCall ==
    /\ pc = "idle"
    /\ args = << >>
    /\ \E q \in DoiQueries, scholarship_year \in ScholarshipYears,
          items \in DocLists(MaxDocs) :
          /\ args' = << "search_doi", q.name_query, q.given_name,
                        scholarship_year, Zaragoza, items >>
          /\ ret' = << search_doi(q.name_query, q.given_name, scholarship_year,
                                  Zaragoza, items) >>
    /\ UNCHANGED << store, cache_vars, rows, frame, linker, scrape, pc, locals >>

NextCrossref ==
    \/ ScoreCall
    \/ SearchDoiCall

SpecCrossref == InitCrossref /\ [][NextCrossref]_vars

(***************************************************************************)
(* Position-anchored cross-linker (src/src/scopus/id_match.py).  A DOI, a  *)
(* file name, a Scopus or OpenAlex identifier is a string; a missing DOI   *)
(* cell is "".                                                             *)
(***************************************************************************)
\* scopus_lookup_by_doi when the Scopus search answers resp: the first
\* entry or nothing, unless requests.get raises
scopus_lookup_by_doi(resp) ==
    IF resp.kind = "exception" THEN [raised |-> TRUE, entry |-> << >>]
    ELSE IF resp.kind = "non200" THEN [raised |-> FALSE, entry |-> << >>]
    ELSE [raised |-> FALSE,
          entry |-> IF resp.entries # << >> THEN << resp.entries[1] >>
                    ELSE << >>]

\* openalex_for_doi_by_index that takes the position as the list index
OpenalexByIndexZeroBased(seq, resp) ==
    IF resp.kind = "exception"
    THEN [raised |-> TRUE, work_id |-> Null, author_id |-> Null]
    ELSE IF resp.kind = "non200"
    THEN [raised |-> FALSE, work_id |-> Null, author_id |-> Null]
    ELSE LET authorships == resp.authorships
             index == seq
         IN  [raised |-> FALSE, work_id |-> resp.id,
              author_id |-> IF 0 <= index /\ index < Len(authorships)
                            THEN authorships[index + 1].author.id
                            ELSE Null]

\* openalex_for_doi_by_index(doi, seq) when GET /works/<doi> answers resp:
\* (work_id, author_id), unless requests.get raises; the Python list index
\* idx is position idx + 1 of the sequence
openalex_for_doi_by_index(seq, resp) ==
    IF resp.kind = "exception"
    THEN [raised |-> TRUE, work_id |-> Null, author_id |-> Null]
    ELSE IF resp.kind = "non200"
    THEN [raised |-> FALSE, work_id |-> Null, author_id |-> Null]
    ELSE LET authorships == resp.authorships
             index == seq - 1
         IN  [raised |-> FALSE, work_id |-> resp.id,
              author_id |-> IF 0 <= index /\ index < Len(authorships)
                            THEN authorships[index + 1].author.id
                            ELSE Null]

\* lines 128-132: the position of the researcher in the Scopus author list
RECURSIVE SeqOf(_, _)
SeqOf(authors, scopus_id) ==
    IF authors = << >> THEN << >>
    ELSE IF Head(authors).authid = scopus_id THEN << Head(authors).seq >>
    ELSE SeqOf(Tail(authors), scopus_id)

\* line 150: ~df_out["openalex_author_id"].duplicated()
WithFirstAppearance(rs) ==
    [k \in DOMAIN rs |->
        [title |-> rs[k].title, doi |-> rs[k].doi,
         scopus_position |-> rs[k].scopus_position,
         openalex_work_id |-> rs[k].openalex_work_id,
         openalex_author_id |-> rs[k].openalex_author_id,
         unique_author_first_appearance |->
             \A j \in 1..(k - 1) :
                 rs[j].openalex_author_id # rs[k].openalex_author_id]]

MaxAuthorships == 3     \* authors of the work OpenAlex answers

\* os.listdir(input_dir): two researchers, one researcher whose output file
\* exists already, and a file that is no Excel file
InputFiles ==
    { [name |-> "ana_S1", scopus_id |-> "S1", excel |-> TRUE,
       out_exists |-> FALSE,
       df_in |-> << [doi |-> "10.1/a", title |-> "a"],
                    [doi |-> "", title |-> "no doi"],
                    [doi |-> "10.1/b", title |-> "b"] >>],
      [name |-> "luis_S2", scopus_id |-> "S2", excel |-> TRUE,
       out_exists |-> FALSE,
       df_in |-> << [doi |-> "10.1/c", title |-> "c"] >>],
      [name |-> "eva_S3", scopus_id |-> "S3", excel |-> TRUE,
       out_exists |-> TRUE,
       df_in |-> << [doi |-> "10.1/d", title |-> "d"] >>],
      [name |-> "notes", scopus_id |-> "", excel |-> FALSE,
       out_exists |-> FALSE, df_in |-> << >>] }

\* the @seq a Scopus author list gives the researcher
Positions == (-1)..(MaxAuthorships + 2)

ScopusResponses(scopus_id) ==
    { [kind |-> "exception", entries |-> << >>],
      [kind |-> "non200", entries |-> << >>],
      [kind |-> "ok", entries |-> << >>],
      [kind |-> "ok", entries |-> << [author |-> << >>] >>],
      [kind |-> "ok",
       entries |-> << [author |-> << [authid |-> "S9", seq |-> 1] >>] >>] }
    \cup { [kind |-> "ok",
            entries |-> << [author |-> << [authid |-> "S9", seq |-> 1],
                                          [authid |-> scopus_id, seq |-> p] >>] >>] :
             p \in Positions }

AuthorIds == << "A1", "A2", "A3", "A4", "A5" >>

OpenalexResponses ==
    { [kind |-> "exception", id |-> Null, authorships |-> << >>],
      [kind |-> "non200", id |-> Null, authorships |-> << >>] }
    \cup { [kind |-> "ok", id |-> "W1",
            authorships |-> [i \in 1..n |-> [author |-> [id |-> AuthorIds[i]]]]] :
             n \in 0..MaxAuthorships }

InitLinker ==
    /\ candidate_dict = << >>
    /\ reject_dict = {}
    /\ ins_cache = << >>
    /\ cache_file = << >>
    /\ cache_file_ok = TRUE
    /\ ins_requests = << >>
    /\ rows = 0
    /\ df_main = << >>
    /\ df_out = << >>
    /\ pc = "files"
    /\ fs_id = Null
    /\ full_name = << >>
    /\ ins_id = Null
    /\ results = << >>
    /\ idx = 0
    /\ at_call = << >>
    /\ args = << >>
    /\ ret = << >>
    /\ pending = InputFiles
    /\ cur_file = << >>
    /\ row_idx = 0
    /\ file_rows = << >>
    /\ out_files = << >>
    /\ NoScrape

pipeline == << store, cache_vars, rows, frame, locals >>

\* lines 96-112: the loop over os.listdir takes the next file, in any order
NextFile ==
    /\ pc = "files"
    /\ IF pending = {}
       THEN /\ pc' = "done"
            /\ UNCHANGED << pending, cur_file, row_idx, file_rows >>
       ELSE \E f \in pending :
              /\ pending' = pending \ {f}
              /\ IF ~f.excel \/ f.out_exists
                 THEN UNCHANGED << pc, cur_file, row_idx, file_rows >>
                 ELSE /\ cur_file' = << f >>
                      /\ row_idx' = 0
                      /\ file_rows' = << >>
                      /\ pc' = "rows"
    /\ UNCHANGED << pipeline, scrape, harness, out_files >>

\* lines 114-118 and 145-161: the next row of df_in, or the end of the file
NextRow ==
    /\ pc = "rows"
    /\ IF row_idx = Len(cur_file[1].df_in)
       THEN /\ out_files' = IF file_rows = << >> THEN out_files
                            ELSE DictSet(out_files, cur_file[1].name,
                                         WithFirstAppearance(file_rows))
            /\ cur_file' = << >>
            /\ pc' = "files"
            /\ UNCHANGED row_idx
       ELSE /\ row_idx' = row_idx + 1
            /\ pc' = IF cur_file[1].df_in[row_idx + 1].doi = "" THEN "rows"
                     ELSE "scopus"
            /\ UNCHANGED << cur_file, out_files >>
    /\ UNCHANGED << pipeline, scrape, harness, pending, file_rows >>

\* lines 120-134: the answer of Scopus for the DOI of the row
ScopusAnswer ==
    /\ pc = "scopus"
    /\ \E resp \in ScopusResponses(cur_file[1].scopus_id) :
          LET r == scopus_lookup_by_doi(resp)
          IN  /\ args' = << "scopus_lookup_by_doi",
                            cur_file[1].df_in[row_idx].doi >>
              /\ ret' = r.entry
              /\ pc' = IF r.raised THEN "crashed"
                       ELSE IF r.entry = << >> THEN "rows"
                       ELSE IF SeqOf(r.entry[1].author,
                                     cur_file[1].scopus_id) = << >>
                       THEN "rows"
                       ELSE "openalex"
    /\ UNCHANGED << pipeline, scrape, linker >>

\* lines 136-143: the answer of OpenAlex for the DOI and the position
OpenalexAnswer(resp) ==
    /\ pc = "openalex"
    /\ LET row == cur_file[1].df_in[row_idx]
           seq == SeqOf(ret[1].author, cur_file[1].scopus_id)[1]
           r   == openalex_for_doi_by_index(seq, resp)
       IN  /\ args' = << "openalex_for_doi_by_index", row.doi, seq, resp >>
           /\ ret' = << r.work_id, r.author_id >>
           /\ IF r.raised
              THEN /\ pc' = "crashed"
                   /\ UNCHANGED file_rows
              ELSE /\ pc' = "rows"
                   /\ file_rows' = Append(file_rows,
                          [title |-> row.title, doi |-> row.doi,
                           scopus_position |-> seq,
                           openalex_work_id |-> r.work_id,
                           openalex_author_id |-> r.author_id])
    /\ UNCHANGED << pipeline, scrape, pending, cur_file, row_idx, out_files >>

NextLinker ==
    \/ NextFile
    \/ NextRow
    \/ ScopusAnswer
    \/ \E resp \in OpenalexResponses : OpenalexAnswer(resp)

SpecLinker == InitLinker /\ [][NextLinker]_vars

(***************************************************************************)
(* parse_spanish_name and normalize_name applied on their own.             *)
(***************************************************************************)
MaxNameTokens == 4  \* tokens of a parsed name
MaxNameLen == 3     \* characters of a normalised name

NameTokens == { << "J", "u", "a", "n" >>, << "C", "a", "r", "l", "o", "s" >>, << "G", "a", "r", "c", "í", "a" >>, << "L", "ó", "p", "e", "z" >> }

\* the characters of the names given to normalize_name
NameChars == { "J", "é", "n", " ", "-", ".", "U+2122" }

NameStrings == UNION { [1..k -> NameChars] : k \in 0..MaxNameLen }

ParseCall ==
    /\ pc = "idle"
    /\ args = << >>
    /\ \E tokens \in TokenLists(NameTokens, MaxNameTokens) :
          /\ args' = << "parse_spanish_name", JoinSpace(tokens) >>
          /\ ret' = << parse_spanish_name(JoinSpace(tokens)) >>
    /\ UNCHANGED << store, cache_vars, rows, frame, linker, scrape, pc, locals >>

NormalizeCall ==
    /\ pc = "idle"
    /\ args = << >>
    /\ \E name \in NameStrings :
          /\ args' = << "normalize_name", name >>
          /\ ret' = << normalize_name(name), normalize_name_script(name) >>
    /\ UNCHANGED << store, cache_vars, rows, frame, linker, scrape, pc, locals >>

NextNames ==
    \/ ParseCall
    \/ NormalizeCall

SpecNames == InitCrossref /\ [][NextNames]_vars

(***************************************************************************)
(* The topic loops of Case 3 applied on their own, as written in           *)
(* src/src/openalex/query.py and in scripts/open_alex_query.py.            *)
(***************************************************************************)
MaxTopics == 3      \* topics of an author record

\* the field labels of the topics of a record, in the record's order
TopicLists ==
    UNION { [1..k -> {"Medicine", "Biology", "Physics"}] : k \in 0..MaxTopics }

TopicCall ==
    /\ pc = "idle"
    /\ args = << >>
    /\ \E existing_topics \in TopicLists, potential \in TopicLists :
          /\ args' = << "topic_loops", existing_topics, potential >>
          /\ ret' = << TopicLoop(FirstTwo(existing_topics), FirstTwo(potential), 1),
                       TopicLoopScript(FirstTwo(existing_topics),
                                       FirstTwo(potential), 1) >>
    /\ UNCHANGED << store, cache_vars, rows, frame, linker, scrape, pc, locals >>

NextTopics == TopicCall

SpecTopics == InitGate /\ [][NextTopics]_vars

(***************************************************************************)
(* DOI discovery over the researcher spreadsheet                           *)
(* (src/src/google_scholar/scrape.py).  A cell of the spreadsheet is a     *)
(* string, "" for an empty cell.  A value of the frame is a string, NaN    *)
(* for an empty cell that was read, None for a value the run assigned.     *)
(***************************************************************************)
SAVE_INTERVAL == 10

MaxSheetRows == 2   \* rows of a spreadsheet other than the long one

isna(v) == v = NaN \/ v = Null

\* a skip test that looks at the DOI only
RowSkippedDoiOnly(row) == ~isna(row.DOI)

\* line 46: the row has a Google Scholar profile or a DOI
RowSkipped(row) == ~isna(row.GS) \/ ~isna(row.DOI)

\* lines 37-42: pd.read_excel gives NaN for an empty cell; a DOI or
\* DOI_Status column the sheet does not have is added, filled with None
read_excel(sheet) ==
    [i \in DOMAIN sheet.rows |->
        [GS |-> IF sheet.rows[i].GS = "" THEN NaN ELSE sheet.rows[i].GS,
         DOI |-> IF "DOI" \notin sheet.columns THEN Null
                 ELSE IF sheet.rows[i].DOI = "" THEN NaN ELSE sheet.rows[i].DOI,
         DOI_Status |-> IF "DOI_Status" \notin sheet.columns THEN Null
                        ELSE IF sheet.rows[i].DOI_Status = "" THEN NaN
                        ELSE sheet.rows[i].DOI_Status]]

\* lines 65 and 73: df.to_excel(path, index=False) writes every column of
\* the frame; NaN and None become empty cells
to_excel(d) ==
    [columns |-> {"DOI", "DOI_Status"},
     rows |-> [i \in DOMAIN d |->
                 [GS |-> IF isna(d[i].GS) THEN "" ELSE d[i].GS,
                  DOI |-> IF isna(d[i].DOI) THEN "" ELSE d[i].DOI,
                  DOI_Status |-> IF isna(d[i].DOI_Status) THEN ""
                                 ELSE d[i].DOI_Status]]]

\* the spreadsheets a run starts from: every sheet of up to MaxSheetRows
\* rows, with or without the DOI and DOI_Status columns, and one sheet of
\* SAVE_INTERVAL + 1 rows whose first row has a profile
Sheets ==
    { s \in [columns : { {}, {"DOI"}, {"DOI", "DOI_Status"} },
             rows : UNION { [1..k -> [GS : {"", "gs1"},
                                      DOI : {"", "https://doi.org/10.1/d0"},
                                      DOI_Status : {"", "manual"}]] :
                              k \in 0..MaxSheetRows }] :
        \A i \in DOMAIN s.rows :
            /\ "DOI" \notin s.columns => s.rows[i].DOI = ""
            /\ "DOI_Status" \notin s.columns => s.rows[i].DOI_Status = "" }
    \cup { [columns |-> {},
            rows |-> [i \in 1..(SAVE_INTERVAL + 1) |->
                        [GS |-> IF i = 1 THEN "gs1" ELSE "",
                         DOI |-> "", DOI_Status |-> ""]]] }

\* what search_doi answers: None, or one DOI with its score
DoiResults ==
    { << >>, << [doi |-> "https://doi.org/10.1/d1", score |-> 2] >> }

\* str() of a score
ScoreStr(n) == CASE n = 1 -> "1" [] n = 2 -> "2" [] n = 3 -> "3"

InitDoiRun ==
    /\ candidate_dict = << >>
    /\ reject_dict = {}
    /\ ins_cache = << >>
    /\ cache_file = << >>
    /\ cache_file_ok = TRUE
    /\ ins_requests = << >>
    /\ rows = 0
    /\ df_main = << >>
    /\ df_out = << >>
    /\ pc = "idle"
    /\ fs_id = Null
    /\ full_name = << >>
    /\ ins_id = Null
    /\ results = << >>
    /\ idx = 0
    /\ at_call = << >>
    /\ args = << >>
    /\ ret = << >>
    /\ pending = {}
    /\ cur_file = << >>
    /\ row_idx = 0
    /\ file_rows = << >>
    /\ out_files = << >>
    /\ xlsx \in { << >> } \cup { << s >> : s \in Sheets }
    /\ df = << >>
    /\ df_index = 0
    /\ rows_processed = 0
    /\ searched = {}
    /\ at_start = << >>

\* lines 32-44: run_doi_search starts; without the file it returns at once,
\* otherwise it reads the sheet and enters the loop
ReadExcel ==
    /\ pc = "idle"
    /\ xlsx # << >>
    /\ df' = read_excel(xlsx[1])
    /\ at_start' = read_excel(xlsx[1])
    /\ df_index' = 1
    /\ rows_processed' = 0
    /\ searched' = {}
    /\ pc' = "rows"
    /\ UNCHANGED << pipeline, harness, linker, xlsx >>

\* lines 45-69: one iteration of the loop over df.iterrows(); search_doi
\* is not inside a try, so an exception out of it ends the run
RowStep(raises, found) ==
    /\ pc = "rows"
    /\ df_index <= Len(df)
    /\ IF RowSkipped(df[df_index])
       THEN /\ df_index' = df_index + 1
            /\ UNCHANGED << pc, xlsx, df, rows_processed, searched >>
       ELSE /\ searched' = searched \cup {df_index}
            /\ IF raises
               THEN /\ pc' = "idle"
                    /\ df' = << >>
                    /\ df_index' = 0
                    /\ rows_processed' = 0
                    /\ UNCHANGED xlsx
               ELSE /\ df' = [df EXCEPT ![df_index] =
                                [@ EXCEPT !.DOI = IF found # << >>
                                                  THEN found[1].doi ELSE Null,
                                          !.DOI_Status =
                                              IF found # << >>
                                              THEN ScoreStr(found[1].score)
                                              ELSE Null]]
                    /\ rows_processed' = rows_processed + 1
                    /\ xlsx' = IF rows_processed' % SAVE_INTERVAL = 0
                               THEN << to_excel(df') >> ELSE xlsx
                    /\ df_index' = df_index + 1
                    /\ UNCHANGED pc
    /\ UNCHANGED << pipeline, harness, linker, at_start >>

\* lines 73-74: the loop is over, the frame is saved and the run returns
FinalSave ==
    /\ pc = "rows"
    /\ df_index > Len(df)
    /\ xlsx' = << to_excel(df) >>
    /\ pc' = "idle"
    /\ df' = << >>
    /\ df_index' = 0
    /\ rows_processed' = 0
    /\ UNCHANGED << pipeline, harness, linker, searched, at_start >>

\* the process is stopped inside the loop: what was not saved is lost
Interrupt ==
    /\ pc = "rows"
    /\ pc' = "idle"
    /\ df' = << >>
    /\ df_index' = 0
    /\ rows_processed' = 0
    /\ UNCHANGED << pipeline, harness, linker, xlsx, searched, at_start >>

NextDoiRun ==
    \/ ReadExcel
    \/ \E raises \in BOOLEAN, found \in DoiResults : RowStep(raises, found)
    \/ FinalSave
    \/ Interrupt

SpecDoiRun == InitDoiRun /\ [][NextDoiRun]_vars

(***************************************************************************)
(* Properties.                                                             *)
(***************************************************************************)
\* the source ids of a list of accepted candidate tuples
Ids(accepted) == { accepted[k].candidate_alex_id : k \in DOMAIN accepted }

\* how many tuples of a list carry a source id
Count(accepted, id) ==
    Cardinality({ k \in DOMAIN accepted : accepted[k].candidate_alex_id = id })

\* the candidate the running loop is at
Cur == results[idx]

\* tokens as Case 2 and as Case 3 build them
Tokens2(name) == Split(normalize_name(name))

Tokens3(name) == Sorted(Split(normalize_name(name)))

\* C1: the accepted list of every Person holds each source id at most once,
\* whatever the results lists repeat and however often a Person is searched.
C1_SourceIdAtMostOnce ==
    \A fs \in DOMAIN candidate_dict :
        \A i, j \in DOMAIN candidate_dict[fs] :
            i # j => candidate_dict[fs][i].candidate_alex_id
                        # candidate_dict[fs][j].candidate_alex_id

\* a later search of the same Person starts on a results list that repeats a
\* candidate the Person already holds
C1_Witness ==
    /\ pc = "tier1"
    /\ idx = 1
    /\ Len(results) = 2
    /\ results[1].id = results[2].id
    /\ AlreadyAccepted(candidate_dict, fs_id, results[1].id)
    /\ ExactNameMatch(results[1], full_name)

MemoAnswersUnchecked ==
    \A id \in reject_dict, c \in Catalogue, p \in Persons :
        /\ BagOfWordsEval(Tokens2(c.display_name), Tokens2(p.Nombre_apellidos),
                          reject_dict, id) = [reject |-> TRUE, checks |-> 0]
        /\ BagOfWordsEval(Tokens3(c.display_name), Tokens3(p.Nombre_apellidos),
                          reject_dict, id) = [reject |-> TRUE, checks |-> 0]

\* C3: reject_dict only grows, and for an id that is in it
\* bag_of_words_reject answers reject without evaluating a token check.
C3_MemoOnlyGrows ==
    [][reject_dict \subseteq reject_dict' /\ MemoAnswersUnchecked]_vars

\* Case 2 is at a candidate of reject_dict whose tokens would pass the checks
C3_Witness ==
    /\ pc = "tier2"
    /\ Cur.id \in reject_dict
    /\ ~AlreadyAccepted(candidate_dict, fs_id, Cur.id)
    /\ ~TokenLoop(Tokens2(Cur.display_name), Tokens2(full_name), 1).reject

\* the gate as the claim states it, on candidate tokens c and target tokens t
GatePasses(c, t) ==
    \A i \in 1..Len(c) :
        /\ i <= Len(t)
        /\ IF Len(c[i]) < 2 THEN c[i] = << t[i][1] >> ELSE c[i] \in Range(t)

\* C4: for an id outside reject_dict, bag_of_words_reject returns False
\* exactly when every candidate token has a target position, an initial
\* equals the first character of the target token at its position and a
\* longer token is one of the target tokens; [j, garcia] passes and
\* [juan, garcia, smith] fails against [juan, garcia, lopez].
C4_GateVerdict ==
    (ret # << >> /\ args[4] \notin args[3]) =>
        /\ ret[1].reject = ~GatePasses(args[1], args[2])
        /\ (args[1] = << << "j" >>, garcia >> /\ args[2] = << juan, garcia, lopez >>)
              => ~ret[1].reject
        /\ (args[1] = << juan, garcia, smith >> /\ args[2] = << juan, garcia, lopez >>)
              => ret[1].reject

\* the gate has passed [j, garcia] against [juan, garcia, lopez]
C4_Witness ==
    /\ ret # << >>
    /\ args[1] = << << "j" >>, garcia >>
    /\ args[2] = << juan, garcia, lopez >>
    /\ args[4] \notin args[3]
    /\ ~ret[1].reject

\* the Tier 1 criterion: display name or an alternative equals the target
\* once both are normalised
NamesTarget(candidate, target) ==
    \/ normalize_name(candidate.display_name) = normalize_name(target)
    \/ \E k \in DOMAIN candidate.display_name_alternatives :
          normalize_name(candidate.display_name_alternatives[k]) = normalize_name(target)

\* C5: a Case 1 iteration leaves the candidate accepted exactly when it
\* names the target (or was accepted before), appends it once when it is
\* new, looks at no affiliation and no memo; and when the call returns every
\* candidate of the results list that names the target is accepted.
C5_Tier1ExactName ==
    [][/\ pc = "tier1" =>
            LET before == Accepted(candidate_dict, fs_id)
                after == Accepted(candidate_dict', fs_id)
                new == NamesTarget(Cur, full_name) /\ Cur.id \notin Ids(before)
            IN  /\ Cur.id \in Ids(after)
                      <=> (NamesTarget(Cur, full_name) \/ Cur.id \in Ids(before))
                /\ new => /\ Len(after) = Len(before) + 1
                          /\ SubSeq(after, 1, Len(before)) = before
                          /\ after[Len(after)].candidate_alex_id = Cur.id
                /\ ~new => after = before
                /\ reject_dict' = reject_dict
       /\ (pc = "tier3" /\ pc' = "idle") =>
            \A k \in DOMAIN results :
                NamesTarget(results[k], full_name)
                    => results[k].id \in Ids(Accepted(candidate_dict', fs_id))]_vars

\* Case 1 is over for a Person without resolved institution and has accepted
\* two different candidates, one by its display name and one by an
\* alternative name, the latter without any affiliation
C5_Witness ==
    /\ pc = "tier2"
    /\ idx = 1
    /\ ins_id = Null
    /\ Len(results) = 2
    /\ results[1].id # results[2].id
    /\ normalize_name(results[1].display_name) = normalize_name(full_name)
    /\ normalize_name(results[2].display_name) # normalize_name(full_name)
    /\ results[2].affiliations = << >>
    /\ {results[1].id, results[2].id} \subseteq Ids(Accepted(candidate_dict, fs_id))

\* the loops of a call visit every candidate: the results list is fixed,
\* each loop goes on to the next position and Case 3 starts at the first
\* position when Case 2 is over
LoopsVisitAll ==
    /\ (pc \in {"tier2", "tier3"} /\ idx < Len(results)) =>
            (pc' = pc /\ idx' = idx + 1 /\ results' = results)
    /\ (pc = "tier2" /\ idx = Len(results)) =>
            (pc' = "tier3" /\ idx' = 1 /\ results' = results)

\* C6: a Case 2 iteration on a candidate that is not accepted yet and passes
\* the gate accepts it exactly when the resolved institution id is not null
\* and is one of the candidate's affiliation institution ids; otherwise it
\* changes neither the accepted lists nor reject_dict, and Case 3 still
\* comes to the candidate.
C6_Tier2Affiliation ==
    [][/\ (/\ pc = "tier2"
           /\ ~AlreadyAccepted(candidate_dict, fs_id, Cur.id)
           /\ ~bag_of_words_reject(Tokens2(Cur.display_name), Tokens2(full_name),
                                   reject_dict, Cur.id)) =>
            LET affiliated ==
                    /\ ins_id # Null
                    /\ \E k \in DOMAIN Cur.affiliations : Cur.affiliations[k] = ins_id
            IN  /\ Cur.id \in Ids(Accepted(candidate_dict', fs_id)) <=> affiliated
                /\ reject_dict' = reject_dict
                /\ ~affiliated => candidate_dict' = candidate_dict
       /\ LoopsVisitAll]_vars

\* Case 3 is at a candidate that passed the Case 2 gate without the
\* affiliation: it is neither accepted nor in reject_dict
C6_Witness ==
    /\ pc = "tier3"
    /\ ~AlreadyAccepted(candidate_dict, fs_id, Cur.id)
    /\ Cur.id \notin reject_dict
    /\ ~TokenLoop(Tokens2(Cur.display_name), Tokens2(full_name), 1).reject
    /\ Cur.affiliations # << >>
    /\ ~InstitutionMatch(ins_id, Cur)

\* C7: a Case 3 iteration that finds the accepted list of the Person empty
\* leaves it empty, so the list is empty when search_openalex returns.
C7_Tier3NeedsAnchor ==
    [][(pc = "tier3" /\ Accepted(candidate_dict, fs_id) = << >>) =>
          Accepted(candidate_dict', fs_id) = << >>]_vars

\* Case 3 is at a candidate with topics that passes the gate for a Person
\* nothing is accepted for
C7_Witness ==
    /\ pc = "tier3"
    /\ Accepted(candidate_dict, fs_id) = << >>
    /\ Cur.id \notin reject_dict
    /\ ~TokenLoop(Tokens3(Cur.display_name), Tokens3(full_name), 1).reject
    /\ Cur.topics # << >>

\* the anchor: the accepted candidate of greatest relevance, the first of
\* them on ties (a null relevance counts as 0)
AnchorOf(accepted) ==
    accepted[CHOOSE k \in DOMAIN accepted :
                \A j \in DOMAIN accepted :
                    /\ RelevanceKey(accepted[j]) <= RelevanceKey(accepted[k])
                    /\ j < k => RelevanceKey(accepted[j]) < RelevanceKey(accepted[k])]

\* one of the first two labels of a equals one of the first two labels of b
TopTwoOverlap(a, b) ==
    \E i \in 1..2, j \in 1..2 : i <= Len(a) /\ j <= Len(b) /\ a[i] = b[j]

\* C8: a Case 3 iteration on a candidate that is not accepted yet, not in
\* reject_dict and passes the sorted-token gate accepts it exactly when one
\* of its first two topic fields is one of the first two topic fields of the
\* anchor.
C8_Tier3TopTwoTopics ==
    [][(/\ pc = "tier3"
        /\ ~AlreadyAccepted(candidate_dict, fs_id, Cur.id)
        /\ Cur.id \notin reject_dict
        /\ ~TokenLoop(Tokens3(Cur.display_name), Tokens3(full_name), 1).reject) =>
          LET before == Accepted(candidate_dict, fs_id)
          IN  Cur.id \in Ids(Accepted(candidate_dict', fs_id))
                <=> (before # << >> /\ TopTwoOverlap(AnchorOf(before).topics, Cur.topics))]_vars

\* Case 3 is at a gate-passing candidate that shares a topic field with the
\* anchor, but not among the first two of both
C8_Witness ==
    /\ pc = "tier3"
    /\ ~AlreadyAccepted(candidate_dict, fs_id, Cur.id)
    /\ Cur.id \notin reject_dict
    /\ ~TokenLoop(Tokens3(Cur.display_name), Tokens3(full_name), 1).reject
    /\ Accepted(candidate_dict, fs_id) # << >>
    /\ Range(AnchorOf(Accepted(candidate_dict, fs_id)).topics) \cap Range(Cur.topics) # {}
    /\ ~TopTwoOverlap(AnchorOf(Accepted(candidate_dict, fs_id)).topics, Cur.topics)

\* C9: no cleaned institution name is sent to the institution search twice,
\* whether its first search found an id, found nothing or failed; a call
\* sends nothing or the cleaned form of its argument, and "MIT (Cam)" and
\* "MIT, Cam" have the same cleaned form.
C9_OneRequestPerName ==
    /\ \A i, j \in DOMAIN ins_requests : i # j => ins_requests[i] # ins_requests[j]
    /\ args # << >> => ret[2] \in { << >>, << CleanInstitution(args[1]) >> }
    /\ CleanInstitution(MitParen) = Mit
    /\ CleanInstitution(MitComma) = Mit

\* "MIT, Cam" was resolved without a request after the one search for "MIT"
\* of the run had failed or found nothing
C9_Witness ==
    /\ args = << MitComma >>
    /\ ret = << Null, << >> >>
    /\ ins_requests = << Mit >>
    /\ ins_cache[Mit] = MANUAL_REQUIRED

\* C10: a resolve_institution_id call keeps every entry of the cache as it
\* is, and when the cleaned name of its argument is in the cache it sends no
\* request and returns what the cache holds (null for MANUAL_REQUIRED).
C10_CacheWriteOnce ==
    [][/\ \A k \in DOMAIN ins_cache :
              k \in DOMAIN ins_cache' /\ ins_cache'[k] = ins_cache[k]
       /\ (args' # << >> /\ CleanInstitution(args'[1]) \in DOMAIN ins_cache) =>
              /\ ins_requests' = ins_requests
              /\ ret'[2] = << >>
              /\ ret'[1] = IF ins_cache[CleanInstitution(args'[1])] = MANUAL_REQUIRED
                           THEN Null
                           ELSE ins_cache[CleanInstitution(args'[1])]]_vars

\* a name resolved earlier in the run to the first id of its results is
\* answered from the cache
C10_Witness ==
    /\ args # << >>
    /\ CleanInstitution(args[1]) = Ucm
    /\ ret = << "I2", << >> >>
    /\ Ucm \in Range(ins_requests)
    /\ ins_cache[Ucm] = "I2"

\* C11: between two resolve_institution_id calls the cache file holds exactly
\* the entries of the in-memory cache: every entry written by a call, a
\* resolved id or MANUAL_REQUIRED, was saved before the call returned and
\* before the next institution search was sent.
C11_SavedAfterEveryWrite == cache_file = ins_cache

\* two searches of one run wrote a sentinel and a resolved id, and the file
\* holds both
C11_Witness ==
    /\ Len(ins_requests) = 2
    /\ Mit \in DOMAIN cache_file /\ cache_file[Mit] = MANUAL_REQUIRED
    /\ Ucm \in DOMAIN cache_file /\ cache_file[Ucm] = "I2"

\* C12: a cache file that cannot be read is loaded as the empty cache and
\* the run goes on to its first Person; the run is never in its error state
\* before any row was read.
C12_CorruptCacheIsColdStart ==
    /\ pc = "crashed" => rows > 0
    /\ (~cache_file_ok /\ pc = "idle") => ins_cache = << >>

\* C13: whatever the author searches answer (a timeout, a non-200 status, a
\* body with a positive count and no results list), the failed call counts
\* as zero candidates and the loop over df_main goes on: the run is never
\* stopped by an error raised from search_openalex.
C13_FailedSearchIsZeroCandidates ==
    (rows > 0 /\ pc \notin {"idle", "done"}) =>
        pc \in {"request", "tier1", "tier2", "tier3"}

\* the distinctive tokens of an institution string: what is left of it once
\* the common institution words are dropped
Distinctive(s) == Range(normalize_institution_name(s))

\* the affiliation strings of a document and its publisher
AffiliationStrings(item) ==
    UNION { Range(item.author[i].affiliation) : i \in DOMAIN item.author }
        \cup { item.publisher }

\* C14: compute_similarity_score returns -999 when no author's given+family
\* token set contains every token of the target name, whatever affiliation,
\* publisher and year are; otherwise 1 + a + y, with a = 1 iff an affiliation
\* or the publisher shares a distinctive token with the institution name and
\* y = 1 iff the creation year is within 5 years of the reference year, both
\* ends included; so the result is one of -999, 1, 2, 3.
C14_ScoreIsNameAffiliationYear ==
    (args # << >> /\ args[1] = "compute_similarity_score") =>
        LET item     == args[2]
            contains == \E i \in DOMAIN item.author :
                           Range(tokenize_name_fields(<< args[3] >>))
                               \subseteq AuthorTokens(item.author[i])
            a        == IF \E s \in AffiliationStrings(item) :
                               Distinctive(s) \cap Distinctive(args[4]) # {}
                        THEN 1 ELSE 0
            y        == IF /\ item.date_parts # << >>
                           /\ item.date_parts[1] # << >>
                           /\ item.date_parts[1][1] \in (args[5] - 5)..(args[5] + 5)
                        THEN 1 ELSE 0
        IN  /\ ret[1] = IF contains THEN 1 + a + y ELSE -999
            /\ ret[1] \in {-999, 1, 2, 3}

\* a document created five years after the reference year whose author
\* holds more tokens than the target name and is affiliated to the
\* institution scores 3
C14_Witness ==
    /\ args # << >> /\ args[1] = "compute_similarity_score"
    /\ args[2].author = << AuGarciaLopez >>
    /\ args[3] = << "j", "u", "a", "n", " ", "G", "A", "R", "C", "Í", "A" >>
    /\ args[4] = Zaragoza
    /\ args[2].date_parts = << << 2020 >> >>
    /\ args[5] = 2015
    /\ ret = << 3 >>

\* the score search_doi gives the i-th document of the call in args
DocScore(i) ==
    compute_similarity_score(args[6][i], SearchName(args[2], args[3]),
                             args[5], args[4])

\* the first document, in the order of the answer, that has the highest
\* score of the answer
FirstBest ==
    CHOOSE i \in DOMAIN args[6] :
        /\ \A j \in DOMAIN args[6] : DocScore(j) <= DocScore(i)
        /\ \A j \in 1..(i - 1) : DocScore(j) < DocScore(i)

\* C15: when some document of the answer scores 2 or more, the document
\* search_doi returns is the first one with the highest score, returned with
\* that score: never a document with a lower score, never a later one with
\* the same score.
C15_FirstBestSelected ==
    (/\ args # << >> /\ args[1] = "search_doi"
     /\ \E i \in DOMAIN args[6] : DocScore(i) >= 2) =>
        /\ args[6][FirstBest].DOI # "" => ret[1] # << >>
        /\ ret[1] # << >> =>
              /\ ret[1][1].doi = << "https://doi.org/", args[6][FirstBest].DOI >>
              /\ ret[1][1].score = DocScore(FirstBest)

\* some author of the i-th document of the call in args has exactly the
\* tokens of the target name
ExactDoc(i) ==
    \E k \in DOMAIN args[6][i].author :
        Range(tokenize_name_fields(<< args[6][i].author[k].given,
                                      args[6][i].author[k].family >>))
            = Range(tokenize_name_fields(<< SearchName(args[2], args[3]) >>))

FirstExact ==
    CHOOSE i \in DOMAIN args[6] :
        ExactDoc(i) /\ \A j \in 1..(i - 1) : ~ExactDoc(j)

\* no document of the search_doi call in args scores 2 or more
NoneReachesTwo ==
    /\ args # << >> /\ args[1] = "search_doi"
    /\ \A i \in DOMAIN args[6] : DocScore(i) < 2

\* C16 as stated: when no document scores 2 or more, search_doi returns the
\* first document with an author whose token set equals the target token
\* set, with score 1, and the null result when there is no such document.
C16_FallbackFirstExact ==
    NoneReachesTwo =>
        IF \E i \in DOMAIN args[6] : ExactDoc(i)
        THEN ret[1] = << [doi |-> << "https://doi.org/", args[6][FirstExact].DOI >>,
                          score |-> 1] >>
        ELSE ret[1] = << >>

\* C16: when no document scores 2 or more, search_doi returns the first
\* document with an author whose token set equals the target token set,
\* with score 1, if that document carries a DOI; it returns the null result
\* when that document carries no DOI (later documents are not tried) and
\* when no document has such an author.
C16_FallbackFirstExactWithDoi ==
    NoneReachesTwo =>
        IF /\ \E i \in DOMAIN args[6] : ExactDoc(i)
           /\ args[6][FirstExact].DOI # ""
        THEN ret[1] = << [doi |-> << "https://doi.org/", args[6][FirstExact].DOI >>,
                          score |-> 1] >>
        ELSE ret[1] = << >>

\* the second document of the answer is the first with an author named
\* exactly as the target, and it is returned with score 1
C16_Witness ==
    /\ NoneReachesTwo
    /\ args[6] = << D5, D3 >>
    /\ ~ExactDoc(1) /\ ExactDoc(2)
    /\ FirstExact = 2
    /\ ret[1] = << [doi |-> << "https://doi.org/", "10.1/d3" >>, score |-> 1] >>

\* C17: for a work found by DOI with n authors and a position p,
\* openalex_for_doi_by_index returns the identifier of the p-th author of
\* the list when 1 <= p <= n and a null author identifier, without raising,
\* when p < 1 or p > n; with 3 authors, p = 2 gives the second author and
\* p = 5 gives null.
C17_AuthorAtPosition ==
    (/\ args # << >> /\ args[1] = "openalex_for_doi_by_index"
     /\ args[4].kind = "ok") =>
        LET p == args[3]
            n == Len(args[4].authorships)
        IN  /\ pc # "crashed"
            /\ ret[1] = args[4].id
            /\ ret[2] = IF 1 <= p /\ p <= n
                        THEN args[4].authorships[p].author.id
                        ELSE Null
            /\ (n = 3 /\ p = 2) => ret[2] = "A2"
            /\ (n = 3 /\ p = 5) => ret[2] = Null

\* two DOIs of one researcher were looked up in works of 3 authors: position
\* 2 gave the second author, position 5 gave a row with a null author
C17_Witness ==
    /\ Len(file_rows) = 2
    /\ file_rows[1].scopus_position = 2
    /\ file_rows[1].openalex_author_id = "A2"
    /\ file_rows[2].scopus_position = 5
    /\ file_rows[2].openalex_work_id = "W1"
    /\ file_rows[2].openalex_author_id = Null
    /\ args[1] = "openalex_for_doi_by_index"
    /\ Len(args[4].authorships) = 3

\* C18: a Scopus or OpenAlex lookup that fails for one DOI (a timeout, a
\* transport error, a non-200 status) leaves that DOI unresolved and the
\* loops over the rows and over the files go on: process_researcher_files
\* is never stopped by a lookup.
C18_LookupFailureIsolated ==
    (args # << >> /\ args[1] \in {"scopus_lookup_by_doi", "openalex_for_doi_by_index"})
        => pc \in {"files", "rows", "openalex", "scopus", "done"}

\* C19: parse_spanish_name gives no surname to a name of fewer than 2
\* tokens; to a name of 2 tokens the first token as first name, the second
\* as paternal surname and no maternal surname; to a name of 3 or more
\* tokens the second-to-last token as paternal surname, the last as maternal
\* surname and every token before the last two as first names.
C19_ParseSpanishName ==
    (args # << >> /\ args[1] = "parse_spanish_name") =>
        LET tokens == Split(LowerStr(args[2]))
            n      == Len(tokens)
            parsed == ret[1]
        IN  /\ n < 2 => parsed.paternal = << >> /\ parsed.maternal = << >>
            /\ n = 2 => /\ parsed.first_names = << tokens[1] >>
                        /\ parsed.paternal = << tokens[2] >>
                        /\ parsed.maternal = << >>
            /\ n >= 3 => /\ parsed.paternal = << tokens[n - 1] >>
                         /\ parsed.maternal = << tokens[n] >>
                         /\ parsed.first_names = SubSeq(tokens, 1, n - 2)

\* the characters that differ from ch only in letter case, in a diacritic or
\* as hyphen and space do
SameLetter(ch) ==
    CASE ch \in {"J", "j"} -> {"J", "j"}
      [] ch \in {"n", "N"} -> {"n", "N"}
      [] ch \in {"é", "É", "e", "E"} -> {"é", "É", "e", "E"}
      [] ch \in {"-", " "} -> {"-", " "}
      [] OTHER -> {ch}

\* s without its i-th character
Without(s, i) == SubSeq(s, 1, i - 1) \o SubSeq(s, i + 1, Len(s))

\* the names that differ from x only in the case, the diacritic or the
\* hyphen of one character, in one full stop or in one repeated or
\* surrounding space
SameNames(x) ==
    UNION { { [x EXCEPT ![i] = ch] : ch \in SameLetter(x[i]) } : i \in DOMAIN x }
    \cup { Without(x, i) : i \in { k \in DOMAIN x : x[k] = "." } }
    \cup { SubSeq(x, 1, i) \o << " " >> \o SubSeq(x, i + 1, Len(x)) :
             i \in { k \in DOMAIN x : x[k] = " " } }
    \cup { << " " >> \o x, x \o << " " >> }

\* C20: normalize_name is idempotent on every string, in both copies of the
\* function, and gives one result to names that differ only in letter case,
\* diacritics, hyphen versus space, punctuation or repeated and surrounding
\* whitespace.
C20_NormalizeIdempotent ==
    (args # << >> /\ args[1] = "normalize_name") =>
        /\ normalize_name(ret[1]) = ret[1]
        /\ normalize_name_script(ret[2]) = ret[2]
        /\ \A y \in SameNames(args[2]) :
              /\ normalize_name(y) = ret[1]
              /\ normalize_name_script(y) = ret[2]

\* the resolved institution is one of the candidate's affiliation institutions
Affiliated(c) ==
    /\ ins_id # Null
    /\ \E k \in DOMAIN c.affiliations : c.affiliations[k] = ins_id

\* every name token of the candidate is a token of the target
TokensSubset(c) ==
    Range(Tokens2(c.display_name)) \subseteq Range(Tokens2(full_name))

\* the candidates of the results list that are affiliated with the resolved
\* institution and whose tokens are a subset of the target's
SubsetAffiliated ==
    { results[k].id :
        k \in { j \in DOMAIN results :
                  Affiliated(results[j]) /\ TokensSubset(results[j]) } }

\* the running call is the end-to-end scenario: a resolved institution, no
\* exact-name candidate and one affiliated candidate with subset tokens
EndToEndCase ==
    /\ ins_id # Null
    /\ \A k \in DOMAIN results : ~NamesTarget(results[k], full_name)
    /\ Cardinality(SubsetAffiliated) = 1

EndToEndFresh ==
    /\ EndToEndCase
    /\ at_call[1].accepted = 0
    /\ SubsetAffiliated \cap at_call[1].memo = {}
    /\ \A k \in DOMAIN results :
          results[k].id \in SubsetAffiliated
              => ~TokenLoop(Tokens2(results[k].display_name),
                            Tokens2(full_name), 1).reject

C22_FailureDistinctFromEmpty ==
    pc = "done" =>
        \A i, j \in DOMAIN df_out[1].rows :
            LET failed == df_out[1].rows[i]
                empty == df_out[1].rows[j]
            IN  (/\ failed.ID \notin DOMAIN candidate_dict
                 /\ empty.ID \in DOMAIN candidate_dict
                 /\ candidate_dict[empty.ID] = << >>)
                    => failed.candidate_alex_id # empty.candidate_alex_id

\* C23: a Case 3 iteration that finds the accepted list of the Person empty
\* leaves reject_dict as it is, so that reject_dict after the call holds only
\* the ids it held when Case 2 was over.
C23_Tier3SkippedKeepsMemo ==
    [][(pc = "tier3" /\ Accepted(candidate_dict, fs_id) = << >>) =>
          reject_dict' = reject_dict]_vars

\* C24: the topic loops of Case 3 call gather_candidate_data at most once
\* for a candidate, whatever topic pairs have equal field labels, in
\* src/src/openalex/query.py and in scripts/open_alex_query.py.
C24_AcceptedOnce ==
    (args # << >> /\ args[1] = "topic_loops") =>
        /\ ret[1] <= 1
        /\ ret[2] <= 1

\* the number of the loop the call is in
TierNo == CASE pc = "tier1" -> 1 [] pc = "tier2" -> 2 [] pc = "tier3" -> 3

\* the tier whose criterion a candidate of the running call meets first
TierOf(c) ==
    IF NamesTarget(c, full_name) THEN 1 ELSE IF Affiliated(c) THEN 2 ELSE 3

\* the first position of a source id in the results list
FirstAt(id) ==
    CHOOSE k \in DOMAIN results :
        results[k].id = id /\ \A j \in 1..(k - 1) : results[j].id # id

\* the candidate at position x of the results list is of an earlier tier
\* than the one at position y, or of the same tier and earlier in the list
Precedes(x, y) ==
    \/ TierOf(results[x]) < TierOf(results[y])
    \/ TierOf(results[x]) = TierOf(results[y]) /\ x < y

\* C25: in a search_openalex call the loops run in the order Case 1, Case 2,
\* Case 3, each over the results list from its first to its last position;
\* an iteration appends at most the candidate it is at, at the end of the
\* list, so the entries the call has appended are ordered by tier and,
\* within a tier, by position in the results list.
C25_TierThenSourceOrder ==
    [][(pc = "tier1" \/ pc = "tier2" \/ pc = "tier3") =>
          LET before == Accepted(candidate_dict, fs_id)
              after == Accepted(candidate_dict', fs_id)
              new == (at_call[1].accepted + 1)..Len(after)
          IN  /\ IF idx < Len(results)
                 THEN pc' = pc /\ idx' = idx + 1 /\ results' = results
                 ELSE IF pc = "tier3" THEN pc' = "idle"
                 ELSE /\ pc' = (IF pc = "tier1" THEN "tier2" ELSE "tier3")
                      /\ idx' = 1
                      /\ results' = results
              /\ Len(after) \in {Len(before), Len(before) + 1}
              /\ SubSeq(after, 1, Len(before)) = before
              /\ Len(after) = Len(before) + 1 =>
                    /\ after[Len(after)].candidate_alex_id = Cur.id
                    /\ TierOf(Cur) = TierNo
              /\ \A a, b \in new :
                    a < b => Precedes(FirstAt(after[a].candidate_alex_id),
                                      FirstAt(after[b].candidate_alex_id))]_vars

\* Case 3 starts for a call that has appended its second candidate in
\* Case 1 and then its first candidate in Case 2
C25_Witness ==
    /\ pc = "tier3"
    /\ idx = 1
    /\ Len(results) = 2
    /\ at_call[1].accepted = 0
    /\ Len(Accepted(candidate_dict, fs_id)) = 2
    /\ Accepted(candidate_dict, fs_id)[1].candidate_alex_id = results[2].id
    /\ Accepted(candidate_dict, fs_id)[2].candidate_alex_id = results[1].id
    /\ TierOf(results[2]) = 1
    /\ TierOf(results[1]) = 2

\* one of the tokens is shorter than 2 characters
HasInitial(tokens) == \E i \in DOMAIN tokens : Len(tokens[i]) < 2

\* C26: on a candidate without a token shorter than 2 characters
\* bag_of_words_reject gives the same verdict on the two token lists sorted
\* (Case 3) as on the lists in name order (Case 2); so a candidate that
\* passes in name order and is rejected on the sorted lists has an initial.
C26_SortedGateSameVerdict ==
    args # << >> =>
        LET sorted == bag_of_words_reject(Sorted(args[1]), Sorted(args[2]),
                                          args[3], args[4])
        IN  /\ ~HasInitial(args[1]) => sorted = ret[1].reject
            /\ (~ret[1].reject /\ sorted) => HasInitial(args[1])

\* the gate has passed two long tokens that are not in alphabetical order
\* against a target that is not in alphabetical order either
C26_Witness ==
    /\ args # << >>
    /\ args[1] = << juan, garcia >>
    /\ args[2] = << juan, garcia, lopez >>
    /\ Sorted(args[1]) = << garcia, juan >>
    /\ Sorted(args[2]) = << garcia, juan, lopez >>
    /\ args[4] \notin args[3]
    /\ ~ret[1].reject

\* C27: the relevance score of every accepted candidate is null in every
\* state of the run, so best_existing is the first entry of the Person's
\* accepted list; that entry never changes once it is there, and a Case 3
\* iteration on a candidate that is not accepted yet and passes the gate
\* accepts it exactly when its first two topic fields overlap with the
\* first two of that entry.
C27_AnchorIsFirstAccepted ==
    [][/\ \A fs \in DOMAIN candidate_dict :
              /\ \A k \in DOMAIN candidate_dict[fs] :
                    candidate_dict[fs][k].relevance_score = Null
              /\ candidate_dict[fs] # << >> =>
                    /\ BestExisting(candidate_dict[fs]) = 1
                    /\ candidate_dict'[fs][1] = candidate_dict[fs][1]
       /\ (/\ pc = "tier3"
           /\ ~AlreadyAccepted(candidate_dict, fs_id, Cur.id)
           /\ ~bag_of_words_reject(Tokens3(Cur.display_name), Tokens3(full_name),
                                   reject_dict, Cur.id)) =>
            LET before == Accepted(candidate_dict, fs_id)
            IN  Cur.id \in Ids(Accepted(candidate_dict', fs_id))
                  <=> (/\ before # << >>
                       /\ TopTwoOverlap(before[1].topics, Cur.topics))]_vars

\* Case 3 is at a gate-passing candidate whose first two topic fields
\* overlap with those of the Person's last accepted candidate and not with
\* those of the first
C27_Witness ==
    /\ pc = "tier3"
    /\ ~AlreadyAccepted(candidate_dict, fs_id, Cur.id)
    /\ ~bag_of_words_reject(Tokens3(Cur.display_name), Tokens3(full_name),
                            reject_dict, Cur.id)
    /\ Len(Accepted(candidate_dict, fs_id)) >= 2
    /\ TopTwoOverlap(Accepted(candidate_dict, fs_id)
                        [Len(Accepted(candidate_dict, fs_id))].topics, Cur.topics)
    /\ ~TopTwoOverlap(Accepted(candidate_dict, fs_id)[1].topics, Cur.topics)

\* C28: no step of a search_openalex call removes a Person from
\* candidate_dict, changes the accepted list of a Person other than the
\* one of the call, or does anything to the list of the Person of the call
\* other than appending at its end; a key that appears is the key of the
\* Person of the call and starts with the empty list. This holds on the
\* steps of a call that is answered, answered with nothing, refused or
\* stopped by an exception alike.
C28_OtherListsKeptOwnListAppendOnly ==
    [][/\ \A fs \in DOMAIN candidate_dict :
              /\ fs \in DOMAIN candidate_dict'
              /\ Len(candidate_dict'[fs]) >= Len(candidate_dict[fs])
              /\ SubSeq(candidate_dict'[fs], 1, Len(candidate_dict[fs]))
                    = candidate_dict[fs]
              /\ fs # fs_id => candidate_dict'[fs] = candidate_dict[fs]
       /\ \A fs \in DOMAIN candidate_dict' \ DOMAIN candidate_dict :
              fs = fs_id /\ candidate_dict'[fs] = << >>]_vars

\* a call has appended to the list of its Person while another Person has
\* accepted candidates
C28_Witness ==
    /\ at_call # << >>
    /\ Len(Accepted(candidate_dict, fs_id)) > at_call[1].accepted
    /\ \E other \in DOMAIN candidate_dict \ {fs_id} :
          candidate_dict[other] # << >>

\* C29: whenever search_doi returns a DOI, the score returned with it is
\* the compute_similarity_score of every document of the answer that
\* carries that DOI; a document returned with score 1 scores exactly 1.
C29_ReportedScoreIsComputedScore ==
    (/\ args # << >> /\ args[1] = "search_doi"
     /\ ret[1] # << >>) =>
        \A i \in DOMAIN args[6] :
            (/\ args[6][i].DOI # ""
             /\ ret[1][1].doi = << "https://doi.org/", args[6][i].DOI >>) =>
                ret[1][1].score = DocScore(i)

\* C30: a row that has a Google Scholar profile or a DOI when a run of
\* run_doi_search reads the sheet is not searched for in that run, keeps
\* its DOI and DOI_Status in the frame for the whole run, and has in the
\* file, after every save of the run, the cells it had when the run read
\* it; this holds for a first run and for a run started after an earlier
\* one was completed or stopped.
C30_ResolvedRowsLeftAlone ==
    \A i \in DOMAIN at_start :
        (at_start[i].GS \notin {NaN, Null} \/ at_start[i].DOI \notin {NaN, Null}) =>
            /\ i \notin searched
            /\ df # << >> => df[i] = at_start[i]
            /\ xlsx[1].rows[i] = to_excel(at_start).rows[i]

\* a restarted run has passed a row that an earlier run resolved and has
\* searched for another row
C30_Witness ==
    /\ pc = "rows"
    /\ searched # {}
    /\ \E i \in 1..(df_index - 1) :
          /\ at_start[i].DOI = "https://doi.org/10.1/d1"
          /\ df[i] = at_start[i]

====
